---- MODULE Spec2Model ----
(***************************************************************************)
(* Model of the normalization layer of the salary crawler:                 *)
(*   salary-crawler/src/zhaopin_salary/salary.py   (parse_salary)          *)
(*   salary-crawler/src/zhaopin_salary/cleaning.py (parse_experience_bucket,*)
(*   clean_dataset)                                                        *)
(*   salary-crawler/src/zhaopin_salary/pipelines.py (build_dedup_key,      *)
(*   JsonlPipeline)                                                        *)
(* and of the second scraper of the repository:                            *)
(*   zhaopin-scraper/scraper/parser.py  (parse_salary, parse_api_results)  *)
(*   zhaopin-scraper/scraper/proxy.py   (ProxyPool)                        *)
(*   zhaopin-scraper/scraper/zhaopin.py (_scrape_combination,              *)
(*   _fetch_page_api)                                                      *)
(*                                                                         *)
(* A text is a sequence of characters.  Every character is written as a    *)
(* short ASCII token:                                                      *)
(*   "0".."9" "." "-" "~" "/" " " "k" "K"   the ASCII characters           *)
(*   "qian" "wan" "yuan"     U+5343  U+4E07  U+5143  (unit symbols)        *)
(*   "zhi" "mei"             U+81F3 (range separator)  U+6BCF ("per")      *)
(*   "yue" "nian" "tian"     U+6708  U+5E74  U+5929  (month, year, day)    *)
(*   "xiao" "shi"            U+5C0F  U+65F6  (together: hour)              *)
(*   "mian" "yi"             U+9762  U+8BAE  (together: negotiable)        *)
(*   "xin" "zi"              U+85AA  U+8D44  (xin: the "N-salary" suffix)  *)
(*   "bao" "mi"              U+4FDD  U+5BC6  (together: confidential)      *)
(*   "dai" "ding"            U+5F85  U+5B9A  (together: to be decided)     *)
(*   "mid"                   U+00B7  (middle dot)                          *)
(*   "yi3" "shang"           U+4EE5  U+4E0A  (after nian: "years or more") *)
(*   "bu" "xian"             U+4E0D  U+9650  (together: no restriction)    *)
(*   "ying" "jie"            U+5E94  U+5C4A  (together: fresh graduate)    *)
(*   "jing" "yan" "sheng"    U+7ECF  U+9A8C  U+751F  (other prose)         *)
(* An optional value (Python's None or a value) is the empty set or a      *)
(* singleton.                                                              *)
(***************************************************************************)
EXTENDS Integers, Sequences, FiniteSets, TLC

VARIABLES src, salary_raw, pc, result,          \* one call of parse_salary
          exp_src, experience_req, bucket,     \* one call of parse_experience_bucket
          key_items, keys,                     \* calls of build_dedup_key
          _seen, _fp,                          \* the fields of one JsonlPipeline
          output_file,                         \* the lines of the pipeline's output file
          inflight,                            \* the item each request has yielded
          trace,                               \* the calls made on the pipeline so far
          records, cleaned,                    \* one call of clean_dataset
          cleaned_of,                          \* clean_dataset after a pipeline run
          heap, calls,                         \* shared objects, and the calls made
          _proxies, _cycle,                    \* the fields of one ProxyPool
          pool_log,                            \* the calls made on the pool so far
          _request_count,                      \* ZhaopinScraper._request_count
          page, all_items,                     \* the locals of _scrape_combination
          scrape_pc,                           \* where _scrape_combination stands
          page_log,                            \* the calls of _fetch_page_api so far
          raw2, out1, out2                     \* one text given to both salary parsers

salaryVars == <<src, salary_raw, pc, result>>

expVars == <<exp_src, experience_req, bucket>>

keyVars == <<key_items, keys>>

pipeVars == <<_seen, _fp, output_file, inflight, trace>>

cleanVars == <<records, cleaned, cleaned_of>>

pureVars == <<heap, calls>>

\* the variables of the specifications further down
parserVars == <<raw2, out1, out2>>

poolVars == <<_proxies, _cycle, pool_log>>

scraperVars == <<_request_count, page, all_items, scrape_pc, page_log>>

restVars == <<pureVars, parserVars, poolVars, scraperVars>>

vars == <<salaryVars, expVars, keyVars, pipeVars, cleanVars, restVars>>

-----------------------------------------------------------------------------
(* Optional values *)

None == {}

Some(v) == {v}

Val(o) == CHOOSE v \in o : TRUE

-----------------------------------------------------------------------------
(* Character classes of the regular expressions (re module, str patterns) *)

Digits == {"0", "1", "2", "3", "4", "5", "6", "7", "8", "9"}

IsDigit(c) == c \in Digits

DigitVal(c) ==
    CASE c = "0" -> 0 [] c = "1" -> 1 [] c = "2" -> 2 [] c = "3" -> 3
      [] c = "4" -> 4 [] c = "5" -> 5 [] c = "6" -> 6 [] c = "7" -> 7
      [] c = "8" -> 8 [] c = "9" -> 9

IsSpace(c) == c = " "

UnitChars == {"k", "K", "qian", "wan", "yuan"}

SepChars == {"-", "~", "zhi"}

SlashChars == {"/", "mei"}

MonthsPrefixChars == {"mid", ".", " "}

-----------------------------------------------------------------------------
(* Scanning helpers: the greedy quantifiers \d+ and \s* *)

RECURSIVE DigitsEnd(_, _)
\* index just after the maximal run of digits that starts at i
DigitsEnd(s, i) ==
    IF i <= Len(s) /\ IsDigit(s[i]) THEN DigitsEnd(s, i + 1) ELSE i

RECURSIVE SkipWs(_, _)
\* index just after the maximal run of whitespace that starts at i
SkipWs(s, i) ==
    IF i <= Len(s) /\ IsSpace(s[i]) THEN SkipWs(s, i + 1) ELSE i

At(s, i) == IF i >= 1 /\ i <= Len(s) THEN s[i] ELSE ""

\* \d+(?:\.\d+)? starting at a digit at i: index just after the number
NumberEnd(s, i) ==
    LET d == DigitsEnd(s, i)
    IN  IF At(s, d) = "." /\ IsDigit(At(s, d + 1))
        THEN DigitsEnd(s, d + 1)
        ELSE d

\* (?P<period>yue|nian|tian|xiao shi)? at i: the period matched, "" if none
PeriodAt(s, i) ==
    IF At(s, i) \in {"yue", "nian", "tian"} THEN At(s, i)
    ELSE IF At(s, i) = "xiao" /\ At(s, i + 1) = "shi" THEN "xiaoshi"
    ELSE ""

\* the tail shared by both patterns, from index e just after a number:
\*   \s*(?P<unit>[kK qian wan yuan]?)\s*(?:/|mei)?\s*(?P<period>...)?
\* every part may match the empty string, so the greedy choice stands
TailGroups(s, e) ==
    LET a == SkipWs(s, e)
        u == IF At(s, a) \in UnitChars THEN At(s, a) ELSE ""
        b == SkipWs(s, IF u = "" THEN a ELSE a + 1)
        c == SkipWs(s, IF At(s, b) \in SlashChars THEN b + 1 ELSE b)
    IN  [unit |-> u, period |-> PeriodAt(s, c)]

NoMatch == [matched |-> FALSE]

\* RANGE_PATTERN anchored at i
RangeAt(s, i) ==
    IF ~IsDigit(At(s, i)) THEN NoMatch
    ELSE
    LET lowEnd == NumberEnd(s, i)
        a == SkipWs(s, lowEnd)
        ul == IF At(s, a) \in UnitChars THEN At(s, a) ELSE ""
        b == SkipWs(s, IF ul = "" THEN a ELSE a + 1)
    IN  IF At(s, b) \notin SepChars THEN NoMatch
        ELSE
        LET c == SkipWs(s, b + 1)
        IN  IF ~IsDigit(At(s, c)) THEN NoMatch
            ELSE
            LET highEnd == NumberEnd(s, c)
                t == TailGroups(s, highEnd)
            IN  [matched |-> TRUE,
                 low |-> SubSeq(s, i, lowEnd - 1),
                 unit_low |-> ul,
                 high |-> SubSeq(s, c, highEnd - 1),
                 unit_high |-> t.unit,
                 period |-> t.period]

RECURSIVE RangeSearchFrom(_, _)
RangeSearchFrom(s, i) ==
    IF i > Len(s) THEN NoMatch
    ELSE LET m == RangeAt(s, i)
         IN  IF m.matched THEN m ELSE RangeSearchFrom(s, i + 1)

\* RANGE_PATTERN.search(raw): the leftmost match
RANGE_PATTERN(s) == RangeSearchFrom(s, 1)

RECURSIVE FirstDigit(_, _)
FirstDigit(s, i) ==
    IF i > Len(s) THEN 0
    ELSE IF IsDigit(s[i]) THEN i ELSE FirstDigit(s, i + 1)

\* SINGLE_PATTERN.search(raw): everything after the number is optional, so
\* the leftmost match starts at the first digit of the text
SINGLE_PATTERN(s) ==
    LET i == FirstDigit(s, 1)
    IN  IF i = 0 THEN NoMatch
        ELSE LET e == NumberEnd(s, i)
                 t == TailGroups(s, e)
             IN  [matched |-> TRUE,
                  value |-> SubSeq(s, i, e - 1),
                  unit |-> t.unit,
                  period |-> t.period]

\* (?P<months>\d{1,2})\s*xin with the digits starting at i: two digits
\* first, then one
MonthsDigitsAt(s, i) ==
    IF ~IsDigit(At(s, i)) THEN NoMatch
    ELSE IF IsDigit(At(s, i + 1)) /\ At(s, SkipWs(s, i + 2)) = "xin"
         THEN [matched |-> TRUE, months |-> SubSeq(s, i, i + 1)]
    ELSE IF At(s, SkipWs(s, i + 1)) = "xin"
         THEN [matched |-> TRUE, months |-> SubSeq(s, i, i)]
    ELSE NoMatch

\* MONTHS_PATTERN anchored at i: the optional prefix character is tried
\* first, then its absence
MonthsAt(s, i) ==
    LET withPrefix == IF At(s, i) \in MonthsPrefixChars
                      THEN MonthsDigitsAt(s, i + 1)
                      ELSE NoMatch
    IN  IF withPrefix.matched THEN withPrefix ELSE MonthsDigitsAt(s, i)

RECURSIVE MonthsSearchFrom(_, _)
MonthsSearchFrom(s, i) ==
    IF i > Len(s) THEN NoMatch
    ELSE LET m == MonthsAt(s, i)
         IN  IF m.matched THEN m ELSE MonthsSearchFrom(s, i + 1)

\* MONTHS_PATTERN.search(raw)
MONTHS_PATTERN(s) == MonthsSearchFrom(s, 1)

-----------------------------------------------------------------------------
(* Numbers.  float(text) is exact for the short numerals of the model; a   *)
(* numeral whose integer part is beyond the range of a double is inf.      *)
(* A finite value is the rational num/den, den a power of ten.             *)

\* largest decimal exponent of a finite double (sys.float_info.max_10_exp)
DBL_MAX_10_EXP == 308

RECURSIVE DigitsValue(_, _, _)
\* value of the digits s[i..j] read in base ten
DigitsValue(s, i, j) ==
    IF j < i THEN 0 ELSE 10 * DigitsValue(s, i, j - 1) + DigitVal(s[j])

RECURSIVE Pow10(_)
Pow10(n) == IF n = 0 THEN 1 ELSE 10 * Pow10(n - 1)

RECURSIVE SkipZeros(_, _)
SkipZeros(s, i) ==
    IF i <= Len(s) /\ s[i] = "0" THEN SkipZeros(s, i + 1) ELSE i

\* float(group): the text is \d+(?:\.\d+)?
\* A double overflows to inf from 1.797...e308 on: an integer part of more
\* than 309 significant digits, or of 309 whose first digit is 2 or more.
float(text) ==
    LET intEnd == DigitsEnd(text, 1)
        first == SkipZeros(text, 1)
        sig == IF first < intEnd THEN intEnd - first ELSE 0
        frac == Len(text) - intEnd
    IN  IF sig > DBL_MAX_10_EXP + 1
           \/ (sig = DBL_MAX_10_EXP + 1 /\ DigitVal(text[first]) >= 2)
        THEN [inf |-> TRUE, num |-> 1, den |-> 1]
        ELSE IF frac <= 0
             THEN [inf |-> FALSE, num |-> DigitsValue(text, 1, intEnd - 1),
                   den |-> 1]
             ELSE [inf |-> FALSE,
                   num |-> DigitsValue(text, 1, intEnd - 1) * Pow10(frac)
                           + DigitsValue(text, intEnd + 1, Len(text)),
                   den |-> Pow10(frac)]

\* int(x) in place of int(round(x)): the fraction is cut off
round_Truncating(num, den) == num \div den

\* round(x) of a non-negative rational: nearest integer, an exact half
\* goes to the even neighbour
round(num, den) ==
    LET q == num \div den
        r == num % den
    IN  IF 2 * r < den THEN q
        ELSE IF 2 * r > den THEN q + 1
        ELSE IF q % 2 = 0 THEN q ELSE q + 1

-----------------------------------------------------------------------------
(* salary.py *)

SALARY_NEGOTIABLE_KEYWORDS ==
    << <<"mian", "yi">>, <<"xin", "zi", "mian", "yi">>,
       <<"bao", "mi">>, <<"dai", "ding">> >>

\* keyword in raw
Contains(s, kw) ==
    \E i \in 1..(Len(s) - Len(kw) + 1) : SubSeq(s, i, i + Len(kw) - 1) = kw

RECURSIVE LastNonSpace(_, _)
LastNonSpace(s, j) ==
    IF j >= 1 /\ IsSpace(s[j]) THEN LastNonSpace(s, j - 1) ELSE j

\* str.strip()
strip(s) == SubSeq(s, SkipWs(s, 1), LastNonSpace(s, Len(s)))

_extract_salary_months(raw) ==
    LET matched == MONTHS_PATTERN(raw)
    IN  IF ~matched.matched THEN Some(12)
        ELSE LET months == DigitsValue(matched.months, 1, Len(matched.months))
             IN  IF 1 <= months /\ months <= 24 THEN Some(months)
                 ELSE Some(12)

\* wan read as a thousand
_unit_multiplier_WanThousand(unit) ==
    IF unit \in {"k", "K", "qian", "wan"} THEN 1000 ELSE 1

_unit_multiplier(unit) ==
    LET u == IF unit = "K" THEN "k" ELSE unit
    IN  IF u \in {"k", "qian"} THEN 1000
        ELSE IF u = "wan" THEN 10000
        ELSE IF u \in {"yuan", ""} THEN 1
        ELSE 1

\* period is "" for a group that did not take part in the match (None)
_normalize_period(period) ==
    IF period = "nian" THEN "yearly"
    ELSE IF period = "yue" \/ period = "" THEN "monthly"
    ELSE IF period = "tian" THEN "daily"
    ELSE IF period = "xiaoshi" THEN "hourly"
    ELSE "monthly"

\* the result is [exc, val]: exc names the exception raised, "" if none
_to_monthly_int(value, unit, period) ==
    LET absolute_value == [value EXCEPT !.num = @ * _unit_multiplier(unit)]
    IN  IF ~absolute_value.inf /\ absolute_value.num <= 0
        THEN [exc |-> "", val |-> None]
        ELSE
        LET monthly ==
              IF period \in {"", "yue"} THEN absolute_value
              ELSE IF period = "nian"
                   THEN [absolute_value EXCEPT !.den = @ * 12]
              ELSE IF period = "tian"       \* 21.75 = 87/4
                   THEN [absolute_value EXCEPT !.num = @ * 87, !.den = @ * 4]
              ELSE IF period = "xiaoshi"
                   THEN [absolute_value EXCEPT !.num = @ * 174]
              ELSE absolute_value
        IN  IF monthly.inf
            THEN [exc |-> "OverflowError", val |-> None]
            ELSE [exc |-> "", val |-> Some(round(monthly.num, monthly.den))]

\* models.SalaryParseResult(...) returned normally
SalaryParseResult(raw, salary_min, salary_max, salary_period, salary_months, salary_parsed) ==
    [exc |-> "", raw |-> raw, salary_min |-> salary_min,
     salary_max |-> salary_max, salary_period |-> salary_period,
     salary_months |-> salary_months, salary_parsed |-> salary_parsed]

\* the call left by an exception instead of a return
Raised(e) == [exc |-> e]

\* raw in SALARY_NEGOTIABLE_KEYWORDS: the whole text must be a keyword
IsNegotiable_WholeText(raw) ==
    \E n \in 1..Len(SALARY_NEGOTIABLE_KEYWORDS) :
        raw = SALARY_NEGOTIABLE_KEYWORDS[n]

\* any(keyword in raw for keyword in SALARY_NEGOTIABLE_KEYWORDS)
IsNegotiable(raw) ==
    \E n \in 1..Len(SALARY_NEGOTIABLE_KEYWORDS) :
        Contains(raw, SALARY_NEGOTIABLE_KEYWORDS[n])

\* unit = unit_low or unit_high or "": the low number's unit first
ResolveUnit_LowFirst(unit_high, unit_low) ==
    IF unit_low /= "" THEN unit_low
    ELSE IF unit_high /= "" THEN unit_high
    ELSE ""

\* unit = unit_high or unit_low or ""
ResolveUnit(unit_high, unit_low) ==
    IF unit_high /= "" THEN unit_high
    ELSE IF unit_low /= "" THEN unit_low
    ELSE ""

\* the two amounts kept in the order of the text
SwapDescending_Never(salary_min, salary_max) == <<salary_min, salary_max>>

\* if both are present and salary_min > salary_max: swap
SwapDescending(salary_min, salary_max) ==
    IF salary_min /= None /\ salary_max /= None
       /\ Val(salary_min) > Val(salary_max)
    THEN <<salary_max, salary_min>>
    ELSE <<salary_min, salary_max>>

\* the branch taken when RANGE_PATTERN matched
RangeBranch(raw, range_match, months) ==
    LET low == float(range_match.low)
        high == float(range_match.high)
        unit == ResolveUnit(range_match.unit_high, range_match.unit_low)
        period == range_match.period
        lo == _to_monthly_int(low, unit, period)
        hi == _to_monthly_int(high, unit, period)
    IN  IF lo.exc /= "" THEN Raised(lo.exc)
        ELSE IF hi.exc /= "" THEN Raised(hi.exc)
        ELSE
        LET b == SwapDescending(lo.val, hi.val)
        IN  SalaryParseResult(raw, b[1], b[2],
                              Some(_normalize_period(period)), months,
                              b[1] /= None /\ b[2] /= None)

\* the branch taken when only SINGLE_PATTERN matched
SingleBranch(raw, single_match, months) ==
    LET value == float(single_match.value)
        unit == single_match.unit
        period == single_match.period
        monthly == _to_monthly_int(value, unit, period)
    IN  IF monthly.exc /= "" THEN Raised(monthly.exc)
        ELSE SalaryParseResult(raw, monthly.val, monthly.val,
                               Some(_normalize_period(period)), months,
                               monthly.val /= None)

\* salary_raw is optional: None or a text
parse_salary(salary_raw_) ==
    LET raw == strip(IF salary_raw_ = None THEN <<>> ELSE Val(salary_raw_))
    IN  IF raw = <<>>
        THEN SalaryParseResult(<<>>, None, None, None, None, FALSE)
        ELSE IF IsNegotiable(raw)
        THEN SalaryParseResult(raw, None, None, None,
                               _extract_salary_months(raw), FALSE)
        ELSE
        LET months == _extract_salary_months(raw)
            range_match == RANGE_PATTERN(raw)
        IN  IF range_match.matched
            THEN RangeBranch(raw, range_match, months)
            ELSE
            LET single_match == SINGLE_PATTERN(raw)
            IN  IF single_match.matched
                THEN SingleBranch(raw, single_match, months)
                ELSE SalaryParseResult(raw, None, None, None, months, FALSE)

-----------------------------------------------------------------------------
(* The salary texts handed to parse_salary.  A text is put together from   *)
(* eight fragments, each possibly empty:                                   *)
(*     pre low ulow sep high uhigh per post                                *)

\* longest run of blanks put around a separator
MaxPad == 1

\* digits of the longest numeral; a run of 309 nines is beyond a double
HugeLen == 309

Pad == [i \in 1..MaxPad |-> " "]

Huge == [i \in 1..HugeLen |-> "9"]

Fragments(pre, low, ulow, sep, high, uhigh, per, post) ==
    [pre : pre, low : low, ulow : ulow, sep : sep, high : high,
     uhigh : uhigh, per : per, post : post]

\* the systematic family
GridInputs ==
    Fragments({<<>>, <<" ">>, <<"mian", "yi">>},
              {<<>>, <<"0">>, <<"8">>, <<"2", "0">>},
              {<<>>, <<"k">>, <<"qian">>},
              {<<"-">>, Pad \o <<"zhi">> \o Pad},
              {<<>>, <<"0">>, <<"6">>, <<"3", "0">>, <<"1", ".", "5">>},
              {<<>>, <<"K">>, <<"wan">>, <<"yuan">>},
              {<<>>, <<"/", "yue">>, <<"/", "nian">>, <<"/", "tian">>,
               <<"mei", "xiao", "shi">>},
              {<<>>, <<"mid", "1", "3", "xin">>, <<"0", "xin">>,
               <<"3", "0", "xin">>})

\* one number only, or none
SingleInputs ==
    Fragments({<<>>, <<" ">>, <<"mian", "yi">>},
              {<<>>}, {<<>>}, {<<>>},
              {<<>>, <<"0">>, <<"6">>, <<"1", "8">>, <<"3", "0">>,
               <<"2", "0">>, <<"1", "2">>, <<"1", ".", "5">>},
              {<<>>, <<"k">>, <<"wan">>, <<"yuan">>},
              {<<>>, <<"/", "yue">>, <<"/", "nian">>, <<"/", "tian">>,
               <<"mei", "xiao", "shi">>},
              {<<>>, <<"mid", "1", "3", "xin">>, <<"0", "xin">>,
               <<" ">>})

\* the ranges of tests/test_salary.py, the other separator and keywords
TestInputs ==
    Fragments({<<>>, <<"bao", "mi">>, <<"xin", "zi", "mian", "yi", " ">>},
              {<<"8">>, <<"1", "5">>, <<"5", "0", "0">>, <<"5", "0">>},
              {<<>>, <<"k">>},
              {<<"-">>, <<"~">>},
              {<<"1", "5">>, <<"2", "0">>, <<"8", "0", "0">>, <<"8", "0">>},
              {<<"k">>, <<"yuan">>},
              {<<>>, <<"/", "yue">>, <<"/", "tian">>, <<"/", "xiao", "shi">>},
              {<<>>, <<"mid", "1", "3", "xin">>, <<" ", "dai", "ding">>})

\* numerals too long for a double
HugeInputs ==
    { t \in Fragments({<<>>}, {<<>>, <<"8">>, Huge}, {<<>>},
                      {<<>>, <<"-">>}, {<<"3", "0">>, Huge},
                      {<<>>, <<"wan">>}, {<<>>, <<"/", "nian">>},
                      {<<>>, <<"1", "3", "xin">>}) :
        /\ Huge \in {t.low, t.high}
        /\ t.sep = <<>> => t.low = <<>> }

Inputs == GridInputs \cup SingleInputs \cup TestInputs \cup HugeInputs

\* the text a producer hands over
Text(t) ==
    t.pre \o t.low \o t.ulow \o t.sep \o t.high \o t.uhigh \o t.per \o t.post

NoFragments ==
    [pre |-> <<>>, low |-> <<>>, ulow |-> <<>>, sep |-> <<>>, high |-> <<>>,
     uhigh |-> <<>>, per |-> <<>>, post |-> <<>>]

-----------------------------------------------------------------------------
(* One call of parse_salary on one input *)

\* the part of the state that belongs to parse_experience_bucket, unused
ExpIdle ==
    /\ exp_src = "idle"
    /\ experience_req = None
    /\ bucket = "idle"

\* the part of the state that belongs to build_dedup_key, unused
KeyIdle ==
    /\ key_items = <<>>
    /\ keys = <<>>

\* cli.py: Scrapy handles this many requests of the domain at a time
CONCURRENT_REQUESTS_PER_DOMAIN == 2

Producers == 1..CONCURRENT_REQUESTS_PER_DOMAIN

\* JsonlPipeline.__init__: nothing seen, no file; no call made yet
PipeNew ==
    /\ _seen = {}
    /\ _fp = "None"
    /\ output_file = <<>>
    /\ inflight = [p \in Producers |-> None]
    /\ trace = <<>>

\* the part of the state that belongs to clean_dataset, unused
CleanIdle ==
    /\ records = <<>>
    /\ cleaned = Raised("idle")
    /\ cleaned_of = [input \in {"file", "records"} |-> Raised("idle")]

\* no shared object, no call
PureIdle ==
    /\ heap = [record |-> {}, seen |-> {}, keywords |-> <<>>]
    /\ calls = <<>>

\* no text given to the two parsers
ParserIdle ==
    /\ raw2 = [pre |-> <<>>, low |-> <<>>, ulow |-> <<>>, sep |-> <<>>,
               high |-> <<>>, uhigh |-> <<>>, per |-> <<>>, post |-> <<>>]
    /\ out1 = [exc |-> "idle"]
    /\ out2 = [exc |-> "idle"]

\* a pool without proxies, on which nothing was called
PoolIdle ==
    /\ _proxies = <<>>
    /\ _cycle = {}
    /\ pool_log = <<>>

\* a scraper that has fetched nothing
ScraperIdle ==
    /\ _request_count = 0
    /\ page = 0
    /\ all_items = <<>>
    /\ scrape_pc = "idle"
    /\ page_log = <<>>

RestIdle == PureIdle /\ ParserIdle /\ PoolIdle /\ ScraperIdle

Init ==
    /\ pc = "call"
    /\ result = Raised("pending")
    /\ \/ \E t \in Inputs : src = t /\ salary_raw = Some(Text(t))
       \/ src = NoFragments /\ salary_raw = None
    /\ ExpIdle
    /\ KeyIdle
    /\ PipeNew
    /\ CleanIdle
    /\ RestIdle

CallParseSalary ==
    /\ pc = "call"
    /\ result' = parse_salary(salary_raw)
    /\ pc' = "done"
    /\ UNCHANGED <<src, salary_raw, expVars, keyVars, pipeVars, cleanVars,
                   restVars>>

Next == CallParseSalary

Spec == Init /\ [][Next]_vars

Returned == pc = "done" /\ result.exc = ""

-----------------------------------------------------------------------------
(* What the claims speak of, written from the claims' own words *)

\* the text given to parse_salary, "" for None
GivenText == IF salary_raw = None THEN <<>> ELSE Val(salary_raw)

IsBlankText == \A i \in 1..Len(GivenText) : GivenText[i] = " "

NegotiableWords ==
    { <<"mian", "yi">>, <<"xin", "zi", "mian", "yi">>, <<"bao", "mi">>,
      <<"dai", "ding">> }

HasNegotiableWord ==
    \E w \in NegotiableWords : \E i \in 1..Len(GivenText) :
        /\ i + Len(w) - 1 <= Len(GivenText)
        /\ \A k \in 1..Len(w) : GivenText[i + k - 1] = w[k]

HasDigit == \E i \in 1..Len(GivenText) : GivenText[i] \in Digits

\* q is the last digit before the xin at p: only blanks lie between
DigitBeforeXin(q, p) ==
    /\ q < p
    /\ GivenText[p] = "xin"
    /\ GivenText[q] \in Digits
    /\ \A k \in (q + 1)..(p - 1) : GivenText[k] = " "

\* the months of the first "N xin" of the text: N is the one or two digits
\* that end just before xin; 12 when there is none or N is not in 1..24
ClaimMonths ==
    LET ps == { p \in 1..Len(GivenText) :
                  \E q \in 1..(p - 1) : DigitBeforeXin(q, p) }
    IN  IF ps = {} THEN 12
        ELSE LET p == CHOOSE x \in ps : \A y \in ps : x <= y
                 q == CHOOSE x \in 1..(p - 1) : DigitBeforeXin(x, p)
                 n == IF q > 1 /\ GivenText[q - 1] \in Digits
                      THEN 10 * DigitVal(GivenText[q - 1])
                           + DigitVal(GivenText[q])
                      ELSE DigitVal(GivenText[q])
             IN  IF n >= 1 /\ n <= 24 THEN n ELSE 12

PeriodTokens == {"monthly", "yearly", "daily", "hourly"}

\* the unit table of the claims
ClaimMult(u) ==
    CASE u \in {"k", "K", "qian"} -> 1000
      [] u = "wan" -> 10000
      [] OTHER -> 1

\* the period table of the claims: factor as <<numerator, denominator>>
ClaimFactor(p) ==
    CASE p = "nian" -> <<1, 12>>
      [] p = "tian" -> <<87, 4>>          \* 21.75
      [] p = "xiaoshi" -> <<174, 1>>
      [] OTHER -> <<1, 1>>

ClaimPeriod(p) ==
    CASE p = "nian" -> "yearly"
      [] p = "tian" -> "daily"
      [] p = "xiaoshi" -> "hourly"
      [] OTHER -> "monthly"

\* the exact monthly value n * mult(u) * factor(p) as a fraction
Exact(n, u, p) ==
    [num |-> n.num * ClaimMult(u) * ClaimFactor(p)[1],
     den |-> n.den * ClaimFactor(p)[2]]

\* the integer b is within 1/2 of the fraction e
Nearest(b, e) ==
    LET d == 2 * (b * e.den - e.num)
    IN  -e.den <= d /\ d <= e.den

\* the fraction e lies exactly half way between two integers
IsHalf(e) == 2 * (e.num % e.den) = e.den

\* the bounds a result carries
Bounds == result.salary_min \cup result.salary_max

\* the numbers matched in the text, with the unit and period that apply to
\* them: both numbers of a range, else the single number, else nothing
Matched ==
    LET raw == strip(GivenText)
        r == RANGE_PATTERN(raw)
        s == SINGLE_PATTERN(raw)
    IN  IF HasNegotiableWord THEN {}
        ELSE IF r.matched
        THEN LET u == IF r.unit_high /= "" THEN r.unit_high ELSE r.unit_low
             IN  { [n |-> float(r.low), u |-> u, p |-> r.period],
                   [n |-> float(r.high), u |-> u, p |-> r.period] }
        ELSE IF s.matched
        THEN { [n |-> float(s.value), u |-> s.unit, p |-> s.period] }
        ELSE {}

\* the text is exactly these characters
TextIs(chars) == salary_raw = Some(chars)

-----------------------------------------------------------------------------
(* The claims *)

\* C1: whenever parse_salary returns both salary_min and salary_max,
\* salary_min <= salary_max (a range that comes out descending is swapped).
C1_MinLeMax ==
    (Returned /\ result.salary_min /= None /\ result.salary_max /= None)
        => Val(result.salary_min) <= Val(result.salary_max)

\* "8 qian - 1.5 wan": 80000 and 15000 after conversion, returned swapped
C1_Witness ==
    /\ Returned
    /\ TextIs(<<"8", "qian", "-", "1", ".", "5", "wan">>)
    /\ result.salary_min = Some(15000)
    /\ result.salary_max = Some(80000)

\* C2: parse_salary returns salary_parsed = true if and only if both bounds
\* are present and strictly positive; an amount that rounds to 0 is never
\* reported as parsed.
C2_ParsedIffPositive ==
    Returned =>
        (result.salary_parsed <=>
            /\ result.salary_min /= None
            /\ result.salary_max /= None
            /\ Val(result.salary_min) > 0
            /\ Val(result.salary_max) > 0)

\* C3: salary_parsed = false implies that both bounds are absent.
C3_UnparsedNoBounds ==
    (Returned /\ ~result.salary_parsed)
        => (result.salary_min = None /\ result.salary_max = None)

\* C4: a text that contains a negotiable keyword is returned unparsed with
\* both bounds absent, whatever numbers it also contains, and its months are
\* still those of its "N xin" (N in 1..24, otherwise 12).
C4_Negotiable ==
    (pc = "done" /\ HasNegotiableWord) =>
        /\ result.exc = ""
        /\ ~result.salary_parsed
        /\ result.salary_min = None
        /\ result.salary_max = None
        /\ result.salary_months = Some(ClaimMonths)

\* a negotiable text that also holds a range and "13 xin"
C4_Witness ==
    /\ Returned
    /\ HasNegotiableWord
    /\ src.low /= <<>> /\ src.high /= <<>> /\ src.sep /= <<>>
    /\ src.post = <<"mid", "1", "3", "xin">>
    /\ result.salary_months = Some(13)
    /\ ~result.salary_parsed

\* C5: for all inputs (null and blank included) salary_months is an integer
\* in 1..24: the N of the text's "N xin" if N is in 1..24, otherwise 12.
C5_MonthsInRange ==
    Returned =>
        /\ result.salary_months /= None
        /\ Val(result.salary_months) \in 1..24
        /\ Val(result.salary_months) = ClaimMonths

\* C6: salary_period is always one of monthly, yearly, daily, hourly; for a
\* blank input, a negotiable text and a text without a number it is monthly.
C6_PeriodSet ==
    Returned =>
        /\ result.salary_period /= None
        /\ Val(result.salary_period) \in PeriodTokens
        /\ (IsBlankText \/ HasNegotiableWord \/ ~HasDigit)
               => result.salary_period = Some("monthly")

\* C7: parse_salary is total: every call returns a value, none raises.
C7_NeverRaises == pc = "done" => result.exc = ""

\* C8: every bound returned is the integer rounding of n * mult(u) *
\* factor(p) for a matched number n with the resolved unit u and the period
\* p, every positive matched number gives such a bound, and salary_period
\* names p; the three examples of the claim come out as stated.
C8_UnitPeriodTable ==
    Returned =>
        /\ \A b \in Bounds : \E m \in Matched :
               m.n.num > 0 /\ Nearest(b, Exact(m.n, m.u, m.p))
        /\ \A m \in Matched : m.n.num > 0 =>
               /\ \E b \in Bounds : Nearest(b, Exact(m.n, m.u, m.p))
               /\ result.salary_period = Some(ClaimPeriod(m.p))
        /\ TextIs(<<"8", "k", "-", "1", "5", "k", "/", "yue">>) =>
               /\ result.salary_min = Some(8000)
               /\ result.salary_max = Some(15000)
               /\ result.salary_period = Some("monthly")
        /\ TextIs(<<"5", "0", "0", "-", "8", "0", "0", "yuan", "/", "tian">>) =>
               /\ result.salary_min = Some(10875)
               /\ result.salary_max = Some(17400)
               /\ result.salary_period = Some("daily")
        /\ TextIs(<<"5", "0", "-", "8", "0", "yuan", "/", "xiao", "shi">>) =>
               /\ result.salary_min = Some(8700)
               /\ result.salary_max = Some(13920)
               /\ result.salary_period = Some("hourly")

\* "500-800 yuan / tian" returned as 10875..17400, daily
C8_Witness ==
    /\ Returned
    /\ TextIs(<<"5", "0", "0", "-", "8", "0", "0", "yuan", "/", "tian">>)
    /\ result.salary_min = Some(10875)
    /\ result.salary_max = Some(17400)
    /\ result.salary_period = Some("daily")

\* the fragments form a plain range: both numbers, a separator, no
\* negotiable keyword, and no digits of post running into the high number
PlainRange ==
    /\ src.low /= <<>> /\ src.sep /= <<>> /\ src.high /= <<>>
    /\ ~HasNegotiableWord
    /\ ~(src.uhigh = <<>> /\ src.per = <<>> /\ src.post /= <<>>
         /\ src.post[1] \in Digits)

\* the unit the claim resolves for a range: the high number's, else the low
\* number's, else none
ClaimUnit ==
    IF src.uhigh /= <<>> THEN src.uhigh[1]
    ELSE IF src.ulow /= <<>> THEN src.ulow[1]
    ELSE ""

\* the period written in the per fragment
SrcPeriod ==
    IF src.per = <<>> THEN ""
    ELSE IF src.per[Len(src.per)] = "shi" THEN "xiaoshi"
    ELSE src.per[Len(src.per)]

\* C9: in a range one unit is applied to both numbers: the high number's
\* unit if it has one, otherwise the low number's, otherwise none; the low
\* number's own unit is ignored when the high number carries one.
C9_RangeUnit ==
    (Returned /\ PlainRange) =>
        LET nums == {float(src.low), float(src.high)}
        IN  /\ \A n \in nums : n.num > 0 =>
                   \E b \in Bounds : Nearest(b, Exact(n, ClaimUnit, SrcPeriod))
            /\ \A b \in Bounds : \E n \in nums :
                   n.num > 0 /\ Nearest(b, Exact(n, ClaimUnit, SrcPeriod))

\* "8 qian - 1.5 wan": both numbers are multiplied by 10000
C9_Witness ==
    /\ Returned
    /\ PlainRange
    /\ src.low = <<"8">> /\ src.ulow = <<"qian">>
    /\ src.high = <<"1", ".", "5">> /\ src.uhigh = <<"wan">>
    /\ src.per = <<>>
    /\ Bounds = {15000, 80000}

PlainSingle ==
    /\ src.low = <<>> /\ src.high /= <<>>
    /\ ~HasNegotiableWord
    /\ ~(src.uhigh = <<>> /\ src.per = <<>> /\ src.post /= <<>>
         /\ src.post[1] \in Digits)

\* the unit written after the single number
SingleUnit == IF src.uhigh /= <<>> THEN src.uhigh[1] ELSE ""

\* C11: when no range matched in a non-negotiable text, the one number is
\* converted with its own unit and period as in the range path, salary_min
\* and salary_max are the same value, and salary_parsed is true iff that
\* value is positive; a text with a range never goes this way.
C11_SingleValue ==
    /\ (Returned /\ PlainSingle) =>
           LET e == Exact(float(src.high), SingleUnit, SrcPeriod)
           IN  /\ result.salary_min = result.salary_max
               /\ \A b \in Bounds : Nearest(b, e)
               /\ e.num > 0 => Bounds /= {}
               /\ result.salary_period = Some(ClaimPeriod(SrcPeriod))
               /\ result.salary_parsed <=> (\E b \in Bounds : b > 0)
    /\ (Returned /\ PlainRange) =>
           \A n \in {float(src.low), float(src.high)} : n.num > 0 =>
               \E b \in Bounds : Nearest(b, Exact(n, ClaimUnit, SrcPeriod))

-----------------------------------------------------------------------------
(* cleaning.py: parse_experience_bucket *)

\* int(group) of a short run of digits
int(text) == DigitsValue(text, 1, Len(text))

\* EXPERIENCE_RANGE_PATTERN anchored at i:
\*   (?P<low>\d+)\s*[-~ zhi]\s*(?P<high>\d+)\s* nian
ExperienceRangeAt(s, i) ==
    IF ~IsDigit(At(s, i)) THEN NoMatch
    ELSE
    LET lowEnd == DigitsEnd(s, i)
        b == SkipWs(s, lowEnd)
    IN  IF At(s, b) \notin SepChars THEN NoMatch
        ELSE
        LET c == SkipWs(s, b + 1)
        IN  IF ~IsDigit(At(s, c)) THEN NoMatch
            ELSE
            LET highEnd == DigitsEnd(s, c)
            IN  IF At(s, SkipWs(s, highEnd)) /= "nian" THEN NoMatch
                ELSE [matched |-> TRUE,
                      low |-> SubSeq(s, i, lowEnd - 1),
                      high |-> SubSeq(s, c, highEnd - 1)]

RECURSIVE ExperienceRangeSearchFrom(_, _)
ExperienceRangeSearchFrom(s, i) ==
    IF i > Len(s) THEN NoMatch
    ELSE LET m == ExperienceRangeAt(s, i)
         IN  IF m.matched THEN m ELSE ExperienceRangeSearchFrom(s, i + 1)

\* EXPERIENCE_RANGE_PATTERN.search(value)
EXPERIENCE_RANGE_PATTERN(s) == ExperienceRangeSearchFrom(s, 1)

\* EXPERIENCE_ABOVE_PATTERN anchored at i: (?P<low>\d+)\s* nian yi3 shang
ExperienceAboveAt(s, i) ==
    IF ~IsDigit(At(s, i)) THEN NoMatch
    ELSE
    LET lowEnd == DigitsEnd(s, i)
        a == SkipWs(s, lowEnd)
    IN  IF At(s, a) = "nian" /\ At(s, a + 1) = "yi3" /\ At(s, a + 2) = "shang"
        THEN [matched |-> TRUE, low |-> SubSeq(s, i, lowEnd - 1)]
        ELSE NoMatch

RECURSIVE ExperienceAboveSearchFrom(_, _)
ExperienceAboveSearchFrom(s, i) ==
    IF i > Len(s) THEN NoMatch
    ELSE LET m == ExperienceAboveAt(s, i)
         IN  IF m.matched THEN m ELSE ExperienceAboveSearchFrom(s, i + 1)

\* EXPERIENCE_ABOVE_PATTERN.search(value)
EXPERIENCE_ABOVE_PATTERN(s) == ExperienceAboveSearchFrom(s, 1)

\* only bu xian is looked for
HasExperienceKeyword_NoFresh(value) == Contains(value, <<"bu", "xian">>)

\* "bu xian" in value or "ying jie" in value
HasExperienceKeyword(value) ==
    Contains(value, <<"bu", "xian">>) \/ Contains(value, <<"ying", "jie">>)

\* low is tested before high
RangeBucket_LowFirst(low, high) ==
    IF low >= 5 THEN "5+"
    ELSE IF high <= 3 THEN "0-3"
    ELSE "3-5"

\* the bucket of a matched range
RangeBucket(low, high) ==
    IF high <= 3 THEN "0-3"
    ELSE IF low >= 5 THEN "5+"
    ELSE "3-5"

\* the first threshold excludes 3
AboveBucket_Below3(low) ==
    IF low < 3 THEN "0-3"
    ELSE IF low < 5 THEN "3-5"
    ELSE "5+"

\* the bucket of a matched "N nian yi3 shang"
AboveBucket(low) ==
    IF low <= 3 THEN "0-3"
    ELSE IF low < 5 THEN "3-5"
    ELSE "5+"

\* the buckets are "0-3" (0-3 nian), "3-5" (3-5 nian), "5+" (5 nian yi3
\* shang) and "unknown"
parse_experience_bucket(experience_req_) ==
    IF experience_req_ = None \/ Val(experience_req_) = <<>> THEN "unknown"
    ELSE
    LET value == strip(Val(experience_req_))
    IN  IF value = <<>> THEN "unknown"
        ELSE IF HasExperienceKeyword(value) THEN "0-3"
        ELSE
        LET range_match == EXPERIENCE_RANGE_PATTERN(value)
        IN  IF range_match.matched
            THEN RangeBucket(int(range_match.low), int(range_match.high))
            ELSE
            LET above_match == EXPERIENCE_ABOVE_PATTERN(value)
            IN  IF above_match.matched
                THEN AboveBucket(int(above_match.low))
                ELSE "unknown"

-----------------------------------------------------------------------------
(* The experience texts: pre low sep high suf post, each possibly empty *)

ExpFragments ==
    [pre : {<<>>, <<" ">>, <<"jing", "yan">>, <<"bu", "xian">>,
            <<"ying", "jie", "sheng">>},
     low : {<<>>, <<"0">>, <<"1">>, <<"3">>, <<"4">>, <<"5">>, <<"6">>,
            <<"1", "0">>},
     sep : {<<>>, <<"-">>, <<"~">>, Pad \o <<"zhi">> \o Pad},
     high : {<<>>, <<"1">>, <<"2">>, <<"3">>, <<"4">>, <<"5">>, <<"8">>,
             <<"1", "0">>},
     suf : {<<>>, <<"nian">>, <<"nian", "yi3", "shang">>, <<" ", "nian">>,
            <<"yi3", "shang">>},
     post : {<<>>, <<" ", "jing", "yan", "bu", "xian">>}]

ExpText(t) == t.pre \o t.low \o t.sep \o t.high \o t.suf \o t.post

NoExpFragments ==
    [pre |-> <<>>, low |-> <<>>, sep |-> <<>>, high |-> <<>>, suf |-> <<>>,
     post |-> <<>>]

\* the part of the state that belongs to parse_salary, unused
SalaryIdle ==
    /\ src = NoFragments
    /\ salary_raw = None
    /\ pc = "idle"
    /\ result = Raised("idle")

InitExp ==
    /\ bucket = "pending"
    /\ \/ \E t \in ExpFragments :
              exp_src = t /\ experience_req = Some(ExpText(t))
       \/ exp_src = NoExpFragments /\ experience_req = None
    /\ SalaryIdle
    /\ KeyIdle
    /\ PipeNew
    /\ CleanIdle
    /\ RestIdle

CallParseExperienceBucket ==
    /\ bucket = "pending"
    /\ bucket' = parse_experience_bucket(experience_req)
    /\ UNCHANGED <<exp_src, experience_req, salaryVars, keyVars, pipeVars,
                   cleanVars, restVars>>

NextExp == CallParseExperienceBucket

SpecExp == InitExp /\ [][NextExp]_vars

-----------------------------------------------------------------------------
(* Claims about parse_experience_bucket *)

ExpReturned == bucket \notin {"pending", "idle"}

\* the text given to parse_experience_bucket, "" for None
ExpGiven == IF experience_req = None THEN <<>> ELSE Val(experience_req)

ExpIsBlank == \A i \in 1..Len(ExpGiven) : ExpGiven[i] = " "

\* the text holds "bu xian" or "ying jie"
ExpHasKeyword ==
    \E i \in 1..(Len(ExpGiven) - 1) :
        \/ ExpGiven[i] = "bu" /\ ExpGiven[i + 1] = "xian"
        \/ ExpGiven[i] = "ying" /\ ExpGiven[i + 1] = "jie"

ExpHas(c) == \E i \in 1..Len(ExpGiven) : ExpGiven[i] = c

\* the fragments spell "<low> sep <high> nian ..." without a keyword
PlainExpRange ==
    /\ exp_src.low /= <<>> /\ exp_src.sep /= <<>> /\ exp_src.high /= <<>>
    /\ exp_src.suf \in {<<"nian">>, <<" ", "nian">>, <<"nian", "yi3", "shang">>}
    /\ ~ExpHasKeyword

SrcLow == DigitsValue(exp_src.low, 1, Len(exp_src.low))

SrcHigh == DigitsValue(exp_src.high, 1, Len(exp_src.high))

\* C12: for a text with no keyword and a "<low>-<high> nian" range, high is
\* tested first: 0-3 if high <= 3, otherwise 5+ if low >= 5, otherwise 3-5;
\* 1-3 gives 0-3, 3-5 gives 3-5, and high <= 3 gives 0-3 even if low >= 5.
C12_RangeBucket ==
    (ExpReturned /\ PlainExpRange) =>
        /\ SrcHigh <= 3 => bucket = "0-3"
        /\ (SrcHigh > 3 /\ SrcLow >= 5) => bucket = "5+"
        /\ (SrcHigh > 3 /\ SrcLow < 5) => bucket = "3-5"
        /\ experience_req = Some(<<"1", "-", "3", "nian">>) => bucket = "0-3"
        /\ experience_req = Some(<<"3", "-", "5", "nian">>) => bucket = "3-5"

\* "5-3 nian": low >= 5 and high <= 3, returned as 0-3
C12_Witness ==
    /\ ExpReturned
    /\ experience_req = Some(<<"5", "-", "3", "nian">>)
    /\ bucket = "0-3"

\* C13: a null, empty or blank text gives unknown; a non-blank text with
\* "bu xian" or "ying jie" gives 0-3, also when it holds a range or an
\* "N nian yi3 shang" that would give another bucket.
C13_BlankAndKeyword ==
    ExpReturned =>
        /\ ExpIsBlank => bucket = "unknown"
        /\ (~ExpIsBlank /\ ExpHasKeyword) => bucket = "0-3"

\* "bu xian 5-8 nian": the range alone would give 5+
C13_Witness ==
    /\ ExpReturned
    /\ experience_req = Some(<<"bu", "xian", "5", "-", "8", "nian">>)
    /\ parse_experience_bucket(Some(<<"5", "-", "8", "nian">>)) = "5+"
    /\ bucket = "0-3"

\* the fragments spell "<N> nian yi3 shang" with no range and no keyword
PlainAbove ==
    /\ exp_src.suf = <<"nian", "yi3", "shang">>
    /\ ~ExpHasKeyword
    /\ \/ exp_src.sep = <<>> /\ exp_src.low \o exp_src.high /= <<>>
       \/ exp_src.sep /= <<>> /\ exp_src.low = <<>> /\ exp_src.high /= <<>>

\* the N of a plain "<N> nian yi3 shang"
SrcAbove ==
    IF exp_src.sep = <<>>
    THEN DigitsValue(exp_src.low \o exp_src.high, 1,
                     Len(exp_src.low \o exp_src.high))
    ELSE SrcHigh

BucketRank(b) ==
    CASE b = "0-3" -> 1 [] b = "3-5" -> 2 [] b = "5+" -> 3 [] OTHER -> 0

\* largest N tried below the N of the text
MaxYears == 12

DigitChar(d) ==
    CASE d = 0 -> "0" [] d = 1 -> "1" [] d = 2 -> "2" [] d = 3 -> "3"
      [] d = 4 -> "4" [] d = 5 -> "5" [] d = 6 -> "6" [] d = 7 -> "7"
      [] d = 8 -> "8" [] d = 9 -> "9"

\* the text "<n> nian yi3 shang" for n < 100
AboveText(n) ==
    (IF n < 10 THEN <<DigitChar(n)>>
     ELSE <<DigitChar(n \div 10), DigitChar(n % 10)>>)
    \o <<"nian", "yi3", "shang">>

\* C14: "N nian yi3 shang" counts only when no keyword and no range matched:
\* 0-3 if N <= 3, 3-5 if N is 4, 5+ if N >= 5; a non-blank text that matches
\* nothing gives unknown; the result is one of four buckets and does not
\* decrease when N grows.
C14_AboveBucket ==
    ExpReturned =>
        /\ bucket \in {"0-3", "3-5", "5+", "unknown"}
        /\ PlainAbove =>
               /\ SrcAbove <= 3 => bucket = "0-3"
               /\ SrcAbove = 4 => bucket = "3-5"
               /\ SrcAbove >= 5 => bucket = "5+"
               /\ \A n \in 0..MaxYears : n <= SrcAbove =>
                      BucketRank(parse_experience_bucket(Some(AboveText(n))))
                          <= BucketRank(bucket)
        /\ (PlainExpRange /\ exp_src.suf = <<"nian", "yi3", "shang">>) =>
               bucket = (IF SrcHigh <= 3 THEN "0-3"
                         ELSE IF SrcLow >= 5 THEN "5+" ELSE "3-5")
        /\ (~ExpHasKeyword /\ (~ExpHas("nian") \/ ~(\E d \in Digits : ExpHas(d))))
               => bucket = "unknown"

\* "4 nian yi3 shang" gives 3-5
C14_Witness ==
    /\ ExpReturned
    /\ PlainAbove
    /\ experience_req = Some(<<"4", "nian", "yi3", "shang">>)
    /\ bucket = "3-5"

-----------------------------------------------------------------------------
(* pipelines.py: build_dedup_key.  The identity fields use the characters  *)
(* "a" "A" "b" "B" "c" "C" "t" "q" "?" "|" and the blank.  An item (a      *)
(* dict) is a set of <<field, value>> pairs, the value optional (None).    *)

UpperToLower ==
    [c \in {"A", "B", "C", "T"} |->
        CASE c = "A" -> "a" [] c = "B" -> "b" [] c = "C" -> "c" [] c = "T" -> "t"]

\* str.lower()
lower(s) ==
    [i \in 1..Len(s) |->
        IF s[i] \in DOMAIN UpperToLower THEN UpperToLower[s[i]] ELSE s[i]]

RECURSIVE SplitFrom(_, _, _, _)
\* str.split(): the maximal runs of non-blank characters, from index i on;
\* word is the run being read, words the runs already complete
SplitFrom(s, i, word, words) ==
    IF i > Len(s)
    THEN IF word = <<>> THEN words ELSE Append(words, word)
    ELSE IF IsSpace(s[i])
         THEN SplitFrom(s, i + 1, <<>>,
                        IF word = <<>> THEN words ELSE Append(words, word))
         ELSE SplitFrom(s, i + 1, Append(word, s[i]), words)

split(s) == SplitFrom(s, 1, <<>>, <<>>)

RECURSIVE join(_, _)
\* sep.join(parts)
join(sep, parts) ==
    IF parts = <<>> THEN <<>>
    ELSE IF Len(parts) = 1 THEN parts[1]
    ELSE parts[1] \o sep \o join(sep, Tail(parts))

\* the case of the letters is kept
_norm_KeepCase(value) ==
    IF value = None THEN <<>>
    ELSE join(<<" ">>, split(strip(Val(value))))

\* pipelines._norm: value is None or a text
_norm(value) ==
    IF value = None THEN <<>>
    ELSE join(<<" ">>, split(lower(strip(Val(value)))))

\* dict.get(key): None when the key is missing
dict_get(item, key) ==
    IF \E p \in item : p[1] = key
    THEN (CHOOSE p \in item : p[1] = key)[2]
    ELSE None

build_dedup_key(item) ==
    LET url == _norm(dict_get(item, "job_url"))
        company == _norm(dict_get(item, "company_name"))
        title == _norm(dict_get(item, "job_title"))
    IN  join(<<"|">>, <<url, company, title>>)

-----------------------------------------------------------------------------
(* Pairs of records handed to build_dedup_key *)

\* a field left out of the dict (a marker no field value equals)
Missing == {<<"missing">>}

UrlValues ==
    {Missing, None, Some(<<"a">>), Some(<<" ", "A", " ">>),
     Some(<<"a", "|", "b">>), Some(<<"a", "?", "q">>)}

CompanyValues ==
    {Missing, Some(<<>>), Some(<<"b">>), Some(<<"c">>),
     Some(<<"b", "|", "c">>), Some(<<"B">> \o Pad \o <<" ", "c">>),
     Some(<<"b", " ", "c">>)}

TitleValues == {None, Some(<<"t">>), Some(<<"T", " ">>), Some(<<"c", "|", "t">>)}

\* the dict with the three identity fields, a Missing one left out
MakeItem(url, company, title) ==
    { p \in {<<"job_url", url>>, <<"company_name", company>>,
             <<"job_title", title>>} : p[2] /= Missing }

KeyRecords ==
    { MakeItem(u, c, t) : u \in UrlValues, c \in CompanyValues, t \in TitleValues }

InitKey ==
    /\ key_items \in KeyRecords \X KeyRecords
    /\ keys = <<>>
    /\ SalaryIdle
    /\ ExpIdle
    /\ PipeNew
    /\ CleanIdle
    /\ RestIdle

\* the next record of the pair is keyed
CallBuildDedupKey ==
    /\ Len(keys) < Len(key_items)
    /\ keys' = Append(keys, build_dedup_key(key_items[Len(keys) + 1]))
    /\ UNCHANGED <<key_items, salaryVars, expVars, pipeVars, cleanVars,
                   restVars>>

NextKey == CallBuildDedupKey

SpecKey == InitKey /\ [][NextKey]_vars

-----------------------------------------------------------------------------
(* Claims about build_dedup_key *)

IdentityFields == {"job_url", "company_name", "job_title"}

\* the text of an identity field of the i-th record: a missing field and a
\* None one read as the empty text
FieldText(i, f) ==
    IF \A p \in key_items[i] : p[1] /= f THEN <<>>
    ELSE LET v == (CHOOSE p \in key_items[i] : p[1] = f)[2]
         IN  IF v = None THEN <<>> ELSE Val(v)

FoldCase(c) ==
    IF c = "A" THEN "a" ELSE IF c = "B" THEN "b" ELSE IF c = "C" THEN "c"
    ELSE IF c = "T" THEN "t" ELSE c

\* a blank is kept when a non-blank stands right before it and another
\* non-blank comes somewhere after it
BlankKept(s, i) ==
    /\ i > 1
    /\ s[i - 1] /= " "
    /\ \E j \in (i + 1)..Len(s) : s[j] /= " "

KeptAt(s) == { i \in 1..Len(s) : s[i] /= " " \/ BlankKept(s, i) }

\* the text without leading and trailing blanks, every inner run of blanks
\* one blank long, the letters in lower case
Normalized(s) ==
    LET kept == KeptAt(s)
        nth(k) == CHOOSE i \in kept : Cardinality({ j \in kept : j < i }) = k - 1
    IN  [k \in 1..Cardinality(kept) |-> FoldCase(s[nth(k)])]

\* records i and j differ at most by case and blanks in their identity fields
SameIdentity(i, j) ==
    \A f \in IdentityFields :
        Normalized(FieldText(i, f)) = Normalized(FieldText(j, f))

\* the records keyed so far
Keyed == 1..Len(keys)

\* C15: records whose job_url, company_name and job_title differ only by
\* letter case, by leading or trailing blanks or by the length of inner runs
\* of blanks (a missing or None field counting as the empty text) get equal
\* keys; a record keyed twice gets the same key, whichever is keyed first
C15_EqualKeys ==
    \A i \in Keyed : \A j \in Keyed :
        SameIdentity(i, j) => keys[i] = keys[j] /\ keys[j] = keys[i]

C15_Witness ==
    /\ Len(keys) = 2
    /\ key_items[1] = MakeItem(Some(<<" ", "A", " ">>),
                               Some(<<"B">> \o Pad \o <<" ", "c">>),
                               Some(<<"T", " ">>))
    /\ key_items[2] = MakeItem(Some(<<"a">>), Some(<<"b", " ", "c">>),
                               Some(<<"t">>))
    /\ SameIdentity(1, 2)
    /\ keys[1] = keys[2]
    /\ keys[1] = <<"a", "|", "b", " ", "c", "|", "t">>

\* C16: two records get the same key exactly when their normalized URL,
\* company and title are pairwise equal
C16_KeyIffSameIdentity ==
    \A i \in Keyed : \A j \in Keyed :
        keys[i] = keys[j] <=> SameIdentity(i, j)

-----------------------------------------------------------------------------
(* pipelines.py: JsonlPipeline.  _fp is "None" or "open"; output_file holds *)
(* the records written, one per line.  Scrapy runs the item callbacks and   *)
(* the pipeline on its one reactor thread: the requests in progress yield   *)
(* their items in any order, and each process_item call runs from its first *)
(* statement to its return or raise before the next one starts.             *)

\* calls made on the pipeline, inflight items included
MaxEvents == 5

ItemA == MakeItem(Some(<<"a">>), Some(<<"b">>), Some(<<"t">>))

\* ItemA again, in another case and with blanks
ItemA2 == MakeItem(Some(<<" ", "A", " ">>), Some(<<"b">>), Some(<<"T", " ">>))

ItemB == MakeItem(Some(<<"a", "?", "q">>), Some(<<"b">>), Some(<<"t">>))

PipeItems == {ItemA, ItemA2, ItemB}

NoItem == {}

\* one call on the pipeline: racing says that another request had yielded a
\* record with the same key and was waiting for its own process_item call
Event(op, producer, item, racing, exc) ==
    [op |-> op, producer |-> producer, item |-> item, racing |-> racing,
     exc |-> exc]

\* the key is never put into the seen-set
process_item_NoInsert(seen, fp, item) ==
    LET key == build_dedup_key(item)
    IN  IF key \in seen
        THEN [_seen |-> seen, line |-> None, exc |-> "DropItem: duplicate job record"]
        ELSE IF fp /= "open"
        THEN [_seen |-> seen, line |-> None,
              exc |-> "DropItem: pipeline output file is not initialized"]
        ELSE [_seen |-> seen, line |-> Some(item), exc |-> ""]

\* JsonlPipeline.process_item on a pipeline with the given fields: the
\* seen-set after the call, the line written (if any) and the exception
\* raised ("" when the item is returned)
process_item(seen, fp, item) ==
    LET key == build_dedup_key(item)
    IN  IF key \in seen
        THEN [_seen |-> seen, line |-> None, exc |-> "DropItem: duplicate job record"]
        ELSE IF fp /= "open"
        THEN [_seen |-> seen \cup {key}, line |-> None,
              exc |-> "DropItem: pipeline output file is not initialized"]
        ELSE [_seen |-> seen \cup {key}, line |-> Some(item), exc |-> ""]

NotPipe == <<salaryVars, expVars, keyVars, cleanVars, restVars>>

\* number of items yielded and not yet processed
Pending == Cardinality({ p \in Producers : inflight[p] /= None })

InitPipe ==
    /\ PipeNew
    /\ CleanIdle
    /\ RestIdle
    /\ SalaryIdle
    /\ ExpIdle
    /\ KeyIdle

\* open_spider: the output file is opened for writing, which empties it.
\* Scrapy opens a pipeline that is not open.
open_spider ==
    /\ _fp = "None"
    /\ Len(trace) + Pending < MaxEvents
    /\ _fp' = "open"
    /\ output_file' = <<>>
    /\ trace' = Append(trace, Event("open_spider", 0, NoItem, FALSE, ""))
    /\ UNCHANGED <<_seen, inflight, NotPipe>>

\* close_spider: the file, if there is one, is closed and forgotten
close_spider ==
    /\ Len(trace) + Pending < MaxEvents
    /\ _fp' = "None"
    /\ trace' = Append(trace, Event("close_spider", 0, NoItem, FALSE, ""))
    /\ UNCHANGED <<_seen, output_file, inflight, NotPipe>>

\* spider.parse_detail: the response of request p yields a record
parse_detail(p, item) ==
    /\ inflight[p] = None
    /\ Len(trace) + Pending < MaxEvents
    /\ inflight' = [inflight EXCEPT ![p] = Some(item)]
    /\ UNCHANGED <<_seen, _fp, output_file, trace, NotPipe>>

\* the item yielded by request p goes through process_item
CallProcessItem(p) ==
    /\ inflight[p] /= None
    /\ LET item == Val(inflight[p])
           r == process_item(_seen, _fp, item)
           racing == \E q \in Producers \ {p} :
                         /\ inflight[q] /= None
                         /\ build_dedup_key(Val(inflight[q])) = build_dedup_key(item)
       IN  /\ _seen' = r._seen
           /\ output_file' = IF r.line = None THEN output_file
                             ELSE Append(output_file, Val(r.line))
           /\ trace' = Append(trace, Event("process_item", p, item, racing, r.exc))
    /\ inflight' = [inflight EXCEPT ![p] = None]
    /\ UNCHANGED <<_fp, NotPipe>>

NextPipe ==
    \/ open_spider
    \/ close_spider
    \/ \E p \in Producers : \E item \in PipeItems : parse_detail(p, item)
    \/ \E p \in Producers : CallProcessItem(p)

SpecPipe == InitPipe /\ [][NextPipe]_vars

-----------------------------------------------------------------------------
(* Claims about JsonlPipeline *)

\* the process_item calls made so far, by their place in the trace
Calls == { n \in 1..Len(trace) : trace[n].op = "process_item" }

KeyOf(n) == build_dedup_key(trace[n].item)

\* the call returned its item, which is then a line of the output file
Written(n) == trace[n].exc = ""

\* the last open_spider or close_spider before place n, 0 if there is none
LastLifecycle(n) ==
    LET before == { m \in 1..(n - 1) : trace[m].op /= "process_item" }
    IN  IF before = {} THEN 0
        ELSE CHOOSE m \in before : \A k \in before : k <= m

\* call n belongs to a run: the pipeline was open
InRun(n) ==
    /\ LastLifecycle(n) > 0
    /\ trace[LastLifecycle(n)].op = "open_spider"

\* the earlier calls of the run of call n
EarlierSameRun(n) == { m \in Calls : LastLifecycle(n) < m /\ m < n }

FirstOfItsKey(n) == \A m \in EarlierSameRun(n) : KeyOf(m) /= KeyOf(n)

RECURSIVE FirstOccurrences(_, _)
\* the records of the calls from..Len(trace) that are the first of their key
\* in their run, in call order
FirstOccurrences(from, upto) ==
    IF from > upto THEN <<>>
    ELSE IF from \in Calls /\ FirstOfItsKey(from)
         THEN <<trace[from].item>> \o FirstOccurrences(from + 1, upto)
         ELSE FirstOccurrences(from + 1, upto)

\* C17: within one run a record is written exactly when no earlier record of
\* the run had an equal key, and while the run lasts the output file holds
\* the first record of every key of the run, in the order they came
C17_WrittenIffFirstInRun ==
    /\ \A n \in Calls : InRun(n) => (Written(n) <=> FirstOfItsKey(n))
    /\ _fp = "open" =>
           output_file = FirstOccurrences(LastLifecycle(Len(trace) + 1) + 1,
                                          Len(trace))

\* calls m and n were both waiting with records of one key when m was made
Raced(m, n) ==
    /\ m < n
    /\ trace[m].racing
    /\ trace[n].producer /= trace[m].producer
    /\ KeyOf(n) = KeyOf(m)
    /\ \A k \in Calls : m < k /\ k < n => trace[k].producer /= trace[n].producer

\* C18: of two process_item calls for records with the same key that two
\* requests have yielded at the same time, at most one returns its item and
\* writes it, whichever of the two is made first; the output file never
\* holds two lines with the same key
C18_AtMostOneAccepted ==
    /\ \A m \in Calls : \A n \in Calls :
           Raced(m, n) => ~(Written(m) /\ Written(n))
    /\ \A i \in 1..Len(output_file) : \A j \in 1..Len(output_file) :
           build_dedup_key(output_file[i]) = build_dedup_key(output_file[j])
               => i = j

C18_Witness ==
    /\ Len(trace) = 3
    /\ trace[1].op = "open_spider"
    /\ Raced(2, 3)
    /\ trace[2].item = ItemA2 /\ trace[2].producer = 2
    /\ trace[3].item = ItemA /\ trace[3].producer = 1
    /\ Written(2)
    /\ trace[3].exc = "DropItem: duplicate job record"
    /\ output_file = <<ItemA2>>

\* C19: the seen-set lasts one run: a record processed in a run opened after
\* an earlier run was closed, whose key came up in the earlier run and not
\* yet in the new one, is written
C19_SeenSetPerRun ==
    \A n \in Calls : \A m \in Calls :
        ( /\ InRun(m)
          /\ InRun(n)
          /\ m < LastLifecycle(n)
          /\ KeyOf(m) = KeyOf(n)
          /\ FirstOfItsKey(n) )
        => Written(n)

\* C24: every key of the seen-set is the key of a line of the output file
\* of the current run, and no record is rejected as a duplicate unless an
\* earlier record of its key was written: a call that fails because the
\* file is not open leaves no key behind
C24_SeenKeysWereWritten ==
    /\ \A key \in _seen :
           \E i \in 1..Len(output_file) : build_dedup_key(output_file[i]) = key
    /\ \A n \in Calls :
           trace[n].exc = "DropItem: duplicate job record" =>
               \E m \in Calls : m < n /\ KeyOf(m) = KeyOf(n) /\ Written(m)

-----------------------------------------------------------------------------
(* cleaning.py: clean_dataset.  records is what _load_jsonl returns, one    *)
(* dict per line of the input file; a dict is a set of <<field, value>>     *)
(* pairs with optional values: texts for the identity fields, salary_raw    *)
(* and experience_req, integers for the salary bounds and months, names for *)
(* the period and the bucket, a Boolean for salary_parsed.                  *)

\* cleaning._norm
cleaning_norm(value) ==
    IF value = None THEN <<>>
    ELSE join(<<" ">>, split(lower(strip(Val(value)))))

\* record[key] = value
dict_set(record, key, value) ==
    { p \in record : p[1] /= key } \cup {<<key, value>>}

\* x or y, for an optional period name
OrPeriod(x, y) == IF x = None \/ Val(x) = "" THEN y ELSE x

\* x or y, for an optional number of months
OrMonths(x, y) == IF x = None \/ Val(x) = 0 THEN y ELSE x

\* bool(x or y), for an optional flag x and a flag y
BoolOr(x, y) == IF x = None \/ Val(x) = FALSE THEN y ELSE TRUE

\* the row with the salary fields merged in and the bucket set
MergeSalary(row, salary_result) ==
    LET r1 == IF dict_get(row, "salary_min") = None
              THEN dict_set(row, "salary_min", salary_result.salary_min)
              ELSE row
        r2 == IF dict_get(r1, "salary_max") = None
              THEN dict_set(r1, "salary_max", salary_result.salary_max)
              ELSE r1
        r3 == dict_set(r2, "salary_period",
                       OrPeriod(dict_get(r2, "salary_period"),
                                salary_result.salary_period))
        r4 == dict_set(r3, "salary_months",
                       OrMonths(dict_get(r3, "salary_months"),
                                salary_result.salary_months))
        r5 == dict_set(r4, "salary_parsed",
                       Some(BoolOr(dict_get(r4, "salary_parsed"),
                                   salary_result.salary_parsed)))
    IN  dict_set(r5, "experience_bucket",
                 Some(parse_experience_bucket(dict_get(r5, "experience_req"))))

CleanKey(record) ==
    <<cleaning_norm(dict_get(record, "job_url")),
      cleaning_norm(dict_get(record, "company_name")),
      cleaning_norm(dict_get(record, "job_title"))>>

\* a record without a parsed salary is skipped as well
SkipRecord_Unparsed(record, seen) ==
    \/ CleanKey(record) \in seen
    \/ dict_get(record, "salary_parsed") = Some(FALSE)

\* if key in seen: continue
SkipRecord(record, seen) == CleanKey(record) \in seen

RECURSIVE CleanLoop(_, _, _, _, _)
\* the loop over the rows, from row i on; salary_results[i] is what
\* parse_salary gives for row i
CleanLoop(rows, salary_results, i, normalized, seen) ==
    IF i > Len(rows) THEN [exc |-> "", normalized |-> normalized]
    ELSE
    LET salary_result == salary_results[i]
    IN  IF salary_result.exc /= "" THEN Raised(salary_result.exc)
        ELSE
        LET record == MergeSalary(rows[i], salary_result)
        IN  IF SkipRecord(record, seen)
            THEN CleanLoop(rows, salary_results, i + 1, normalized, seen)
            ELSE CleanLoop(rows, salary_results, i + 1,
                           Append(normalized, record),
                           seen \cup {CleanKey(record)})

\* the rows written to the two output files and the statistics returned
clean_dataset(rows) ==
    LET salary_results ==
            [i \in 1..Len(rows) |-> parse_salary(dict_get(rows[i], "salary_raw"))]
        looped == CleanLoop(rows, salary_results, 1, <<>>, {})
    IN  IF looped.exc /= "" THEN looped
        ELSE [exc |-> "",
              normalized |-> looped.normalized,
              stats |-> [raw_rows |-> Len(rows),
                         clean_rows |-> Len(looped.normalized),
                         dropped_duplicates |->
                             Len(rows) - Len(looped.normalized)]]

-----------------------------------------------------------------------------
(* Input files of clean_dataset *)

\* rows of the longest input file
MaxRows == 3

RowOf(item, salary, experience, more) ==
    item \cup more
         \cup { p \in {<<"salary_raw", salary>>, <<"experience_req", experience>>} :
                  p[2] /= Missing }

RowParsed ==
    RowOf(ItemA, Some(<<"8", "k", "-", "1", "5", "k">>),
          Some(<<"3", "-", "5", "nian">>), {})

\* the key of RowParsed; the salary is negotiable, no experience is given
RowNegotiable == RowOf(ItemA2, Some(<<"mian", "yi">>), Missing, {})

RowNoSalary == RowOf(ItemB, Missing, Some(<<"jing", "yan">>), {})

\* a range whose lower bound is zero
RowZeroLow ==
    RowOf(ItemB, Some(<<"0", "-", "3", "0", "K">>), Some(<<"bu", "xian">>), {})

\* a row that brings its own salary fields
RowPrefilled ==
    RowOf(ItemA, Missing, Some(<<"5", "nian", "yi3", "shang">>),
          {<<"salary_min", Some(5000)>>, <<"salary_parsed", Some(TRUE)>>})

\* a row that brings a lower bound above the range of its salary text
RowOwnMin ==
    RowOf(ItemB, Some(<<"8", "k", "-", "1", "5", "k">>), Missing,
          {<<"salary_min", Some(20000)>>})

RowBarInUrl ==
    RowOf(MakeItem(Some(<<"a", "|", "b">>), Some(<<"c">>), Some(<<"t">>)),
          Some(<<"9", "k">>), Missing, {})

RowBarInCompany ==
    RowOf(MakeItem(Some(<<"a">>), Some(<<"b", "|", "c">>), Some(<<"t">>)),
          Some(<<"9", "k">>), Missing, {})

CleanRows ==
    {RowParsed, RowNegotiable, RowNoSalary, RowZeroLow, RowPrefilled,
     RowOwnMin, RowBarInUrl, RowBarInCompany}

InitClean ==
    /\ \E n \in 0..MaxRows : records \in [1..n -> CleanRows]
    /\ cleaned = Raised("pending")
    /\ cleaned_of = [input \in {"file", "records"} |-> Raised("idle")]
    /\ SalaryIdle
    /\ ExpIdle
    /\ KeyIdle
    /\ PipeNew
    /\ RestIdle

CallCleanDataset ==
    /\ cleaned = Raised("pending")
    /\ cleaned' = clean_dataset(records)
    /\ UNCHANGED <<records, cleaned_of, salaryVars, expVars, keyVars,
                   pipeVars, restVars>>

NextClean == CallCleanDataset

SpecClean == InitClean /\ [][NextClean]_vars

-----------------------------------------------------------------------------
(* Claims about clean_dataset *)

CleanReturned == cleaned.exc = ""

\* the text of an identity field of a row, empty when missing or None
RowFieldText(row, f) ==
    IF \A p \in row : p[1] /= f THEN <<>>
    ELSE LET v == (CHOOSE p \in row : p[1] = f)[2]
         IN  IF v = None THEN <<>> ELSE Val(v)

\* the identity of a row: its three identity fields, normalized
RowIdentity(row) ==
    [f \in IdentityFields |-> Normalized(RowFieldText(row, f))]

\* the input rows that no earlier input row has the identity of
FirstRows ==
    { i \in 1..Len(records) :
        \A j \in 1..(i - 1) : RowIdentity(records[j]) /= RowIdentity(records[i]) }

\* what the row said before the call is still in the record
SameRow(record, row) ==
    \A f \in IdentityFields \cup {"salary_raw", "experience_req"} :
        dict_get(record, f) = dict_get(row, f)

\* C20: a call of clean_dataset that returns has dropped exactly the rows
\* that repeat the identity of an earlier row: every other row is in the
\* output, in input order, whether or not its salary was parsed and its
\* bucket is known; the output has one row per distinct identity, and
\* raw_rows = clean_rows + dropped_duplicates counts the rows read and kept
C20_OnlyDuplicatesDropped ==
    CleanReturned =>
        /\ Len(cleaned.normalized) =
               Cardinality({ RowIdentity(records[i]) : i \in 1..Len(records) })
        /\ \A i \in FirstRows :
               LET k == Cardinality({ j \in FirstRows : j <= i })
               IN  /\ k <= Len(cleaned.normalized)
                   /\ SameRow(cleaned.normalized[k], records[i])
        /\ cleaned.stats.raw_rows = Len(records)
        /\ cleaned.stats.clean_rows = Len(cleaned.normalized)
        /\ cleaned.stats.raw_rows =
               cleaned.stats.clean_rows + cleaned.stats.dropped_duplicates

C20_Witness ==
    /\ records = <<RowParsed, RowNegotiable, RowNoSalary>>
    /\ CleanReturned
    /\ Len(cleaned.normalized) = 2
    /\ SameRow(cleaned.normalized[2], RowNoSalary)
    /\ dict_get(cleaned.normalized[2], "salary_parsed") = Some(FALSE)
    /\ dict_get(cleaned.normalized[2], "experience_bucket") = Some("unknown")
    /\ cleaned.stats =
           [raw_rows |-> 3, clean_rows |-> 2, dropped_duplicates |-> 1]

\* C28: every record clean_dataset puts out with salary_parsed = true has
\* both salary bounds, the lower one not above the upper one
C28_ParsedHasOrderedBounds ==
    CleanReturned =>
        \A i \in 1..Len(cleaned.normalized) :
            LET record == cleaned.normalized[i]
            IN  dict_get(record, "salary_parsed") = Some(TRUE) =>
                    /\ dict_get(record, "salary_min") /= None
                    /\ dict_get(record, "salary_max") /= None
                    /\ Val(dict_get(record, "salary_min"))
                           <= Val(dict_get(record, "salary_max"))

-----------------------------------------------------------------------------
(* The two deduplication stages on one sequence of records: the records go  *)
(* through one run of a JsonlPipeline, clean_dataset reads the file the run *)
(* has written, and clean_dataset reads the records themselves.            *)

NotDedup == <<salaryVars, expVars, keyVars, restVars>>

\* the records handed to process_item so far
Fed == Cardinality({ n \in 1..Len(trace) : trace[n].op = "process_item" })

\* the run is over: the file was opened, every record was fed, the file closed
RunOver == Len(trace) = Len(records) + 2

InitDedup ==
    /\ \E n \in 0..MaxRows : records \in [1..n -> CleanRows]
    /\ cleaned = Raised("idle")
    /\ cleaned_of = [input \in {"file", "records"} |-> Raised("pending")]
    /\ PipeNew
    /\ SalaryIdle
    /\ ExpIdle
    /\ KeyIdle
    /\ RestIdle

\* the crawl starts: open_spider
DedupOpenSpider ==
    /\ trace = <<>>
    /\ _fp' = "open"
    /\ output_file' = <<>>
    /\ trace' = Append(trace, Event("open_spider", 0, NoItem, FALSE, ""))
    /\ UNCHANGED <<_seen, inflight, cleanVars, NotDedup>>

\* the next record goes through process_item
DedupProcessItem ==
    /\ _fp = "open"
    /\ Fed < Len(records)
    /\ LET item == records[Fed + 1]
           r == process_item(_seen, _fp, item)
       IN  /\ _seen' = r._seen
           /\ output_file' = IF r.line = None THEN output_file
                             ELSE Append(output_file, Val(r.line))
           /\ trace' = Append(trace, Event("process_item", 1, item, FALSE, r.exc))
    /\ UNCHANGED <<_fp, inflight, cleanVars, NotDedup>>

\* the crawl ends: close_spider
DedupCloseSpider ==
    /\ _fp = "open"
    /\ Fed = Len(records)
    /\ _fp' = "None"
    /\ trace' = Append(trace, Event("close_spider", 0, NoItem, FALSE, ""))
    /\ UNCHANGED <<_seen, output_file, inflight, cleanVars, NotDedup>>

\* clean_dataset, first on the file the run has written ("file"), then on
\* the records themselves ("records")
CallCleanDatasetOn(input) ==
    /\ RunOver
    /\ cleaned_of[input] = Raised("pending")
    /\ input = "records" => cleaned_of["file"] /= Raised("pending")
    /\ cleaned_of' =
           [cleaned_of EXCEPT ![input] =
                clean_dataset(IF input = "file" THEN output_file ELSE records)]
    /\ UNCHANGED <<records, cleaned, pipeVars, NotDedup>>

NextDedup ==
    \/ DedupOpenSpider
    \/ DedupProcessItem
    \/ DedupCloseSpider
    \/ \E input \in {"file", "records"} : CallCleanDatasetOn(input)

SpecDedup == InitDedup /\ [][NextDedup]_vars

\* C27: clean_dataset drops no record of the file one pipeline run has
\* written, and the pipeline has dropped no record that clean_dataset keeps
\* of the same records: the run's file, clean_dataset's output for the file
\* and clean_dataset's output for the records hold the same rows in the
\* same order
C27_StagesAgree ==
    /\ cleaned_of["file"].exc = "" =>
           /\ Len(cleaned_of["file"].normalized) = Len(output_file)
           /\ \A i \in 1..Len(output_file) :
                  SameRow(cleaned_of["file"].normalized[i], output_file[i])
    /\ cleaned_of["records"].exc = "" =>
           /\ Len(cleaned_of["records"].normalized) <= Len(output_file)
           /\ \A i \in 1..Len(cleaned_of["records"].normalized) :
                  SameRow(cleaned_of["records"].normalized[i], output_file[i])

-----------------------------------------------------------------------------
(* The three functions called in any order on shared objects.  heap holds   *)
(* the objects a call could reach: the record handed to build_dedup_key (a  *)
(* dict, passed by reference), a pipeline's seen-set and the module-level   *)
(* keyword table.  A call gives its return value and the heap it leaves.    *)

\* calls in one behaviour
MaxCalls == 3

\* the variables of the specifications above
crawlerVars == <<salaryVars, expVars, keyVars, pipeVars, cleanVars>>

CrawlerIdle ==
    /\ SalaryIdle
    /\ ExpIdle
    /\ KeyIdle
    /\ PipeNew
    /\ CleanIdle

\* salary.parse_salary: no global is assigned, the argument is a str
parse_salary_call(h, raw) == [ret |-> parse_salary(raw), heap |-> h]

\* cleaning.parse_experience_bucket
parse_experience_bucket_call(h, value) ==
    [ret |-> parse_experience_bucket(value), heap |-> h]

\* the normalized fields are written back into the record
build_dedup_key_call_InPlace(h) ==
    [ret |-> build_dedup_key(h.record),
     heap |-> [h EXCEPT !.record =
                 { <<p[1], Some(_norm(p[2]))>> : p \in h.record }]]

\* pipelines.build_dedup_key on the shared record: item.get only reads
build_dedup_key_call(h) == [ret |-> build_dedup_key(h.record), heap |-> h]

PureSalaryArgs ==
    {None, Some(<<"8", "k", "-", "1", "5", "k">>), Some(<<"mian", "yi">>)}

PureExperienceArgs ==
    {None, Some(<<"3", "-", "5", "nian">>), Some(<<"bu", "xian">>)}

PureRecords ==
    {ItemA2, ItemB, MakeItem(Missing, Some(<<"B">> \o Pad \o <<" ", "c">>), None)}

InitPure ==
    /\ heap \in [record : PureRecords,
                 seen : {{}, {build_dedup_key(ItemA)}},
                 keywords : {SALARY_NEGOTIABLE_KEYWORDS}]
    /\ calls = <<>>
    /\ CrawlerIdle
    /\ ParserIdle
    /\ PoolIdle
    /\ ScraperIdle

\* the call is added to the log with the heap before and after it
Logged(fn, arg, c) ==
    /\ Len(calls) < MaxCalls
    /\ calls' = Append(calls, [fn |-> fn, arg |-> arg, ret |-> c.ret,
                               before |-> heap, after |-> c.heap])
    /\ heap' = c.heap
    /\ UNCHANGED <<crawlerVars, parserVars, poolVars, scraperVars>>

PureParseSalary(raw) == Logged("parse_salary", raw, parse_salary_call(heap, raw))

PureParseExperienceBucket(value) ==
    Logged("parse_experience_bucket", value,
           parse_experience_bucket_call(heap, value))

PureBuildDedupKey ==
    Logged("build_dedup_key", heap.record, build_dedup_key_call(heap))

NextPure ==
    \/ \E raw \in PureSalaryArgs : PureParseSalary(raw)
    \/ \E value \in PureExperienceArgs : PureParseExperienceBucket(value)
    \/ PureBuildDedupKey

SpecPure == InitPure /\ [][NextPure]_vars

-----------------------------------------------------------------------------
(* zhaopin-scraper/scraper/parser.py: the second salary parser.  Its names  *)
(* parse_salary and _unit_multiplier are taken by salary.py above, so they  *)
(* carry the package name here.                                             *)

\* [\d.]
IsDigitOrDot(c) == IsDigit(c) \/ c = "."

RECURSIVE NumberTokenEnd(_, _)
\* index just after the maximal run of [\d.] that starts at i
NumberTokenEnd(s, i) ==
    IF i <= Len(s) /\ IsDigitOrDot(s[i]) THEN NumberTokenEnd(s, i + 1) ELSE i

\* [kK qian wan]?
ScraperUnitChars == {"k", "K", "qian", "wan"}

\* _SALARY_PAT anchored at i.  Every part is greedy and no shorter choice
\* can match: a shorter number is followed by a digit or dot, and a unit
\* letter left unread is not a separator.
SalaryPatAt(s, i) ==
    IF ~IsDigitOrDot(At(s, i)) THEN NoMatch
    ELSE
    LET lowEnd == NumberTokenEnd(s, i)
        u1 == SkipWs(s, lowEnd)
        hasLowUnit == At(s, u1) \in ScraperUnitChars
        sepAt == SkipWs(s, IF hasLowUnit THEN u1 + 1 ELSE u1)
    IN  IF At(s, sepAt) \notin SepChars THEN NoMatch
        ELSE
        LET highAt == SkipWs(s, sepAt + 1)
        IN  IF ~IsDigitOrDot(At(s, highAt)) THEN NoMatch
            ELSE
            LET highEnd == NumberTokenEnd(s, highAt)
                u2 == SkipWs(s, highEnd)
            IN  [matched |-> TRUE,
                 low |-> SubSeq(s, i, lowEnd - 1),
                 low_unit |-> IF hasLowUnit THEN s[u1] ELSE "",
                 high |-> SubSeq(s, highAt, highEnd - 1),
                 high_unit |-> IF At(s, u2) \in ScraperUnitChars
                               THEN s[u2] ELSE ""]

RECURSIVE SalaryPatSearchFrom(_, _)
SalaryPatSearchFrom(s, i) ==
    IF i > Len(s) THEN NoMatch
    ELSE LET m == SalaryPatAt(s, i)
         IN  IF m.matched THEN m ELSE SalaryPatSearchFrom(s, i + 1)

\* _SALARY_PAT.search(raw)
_SALARY_PAT(s) == SalaryPatSearchFrom(s, 1)

\* (\d+)\s* xin anchored at i
MonthsPatAt(s, i) ==
    IF ~IsDigit(At(s, i)) THEN NoMatch
    ELSE LET e == DigitsEnd(s, i)
         IN  IF At(s, SkipWs(s, e)) = "xin"
             THEN [matched |-> TRUE, months |-> SubSeq(s, i, e - 1)]
             ELSE NoMatch

RECURSIVE MonthsPatSearchFrom(_, _)
MonthsPatSearchFrom(s, i) ==
    IF i > Len(s) THEN NoMatch
    ELSE LET m == MonthsPatAt(s, i)
         IN  IF m.matched THEN m ELSE MonthsPatSearchFrom(s, i + 1)

\* _MONTHS_PAT.search(raw)
_MONTHS_PAT(s) == MonthsPatSearchFrom(s, 1)

\* _YEARLY_PAT.search(raw): a slash, blanks, nian, anywhere in the text
_YEARLY_PAT(s) ==
    \E i \in 1..Len(s) : s[i] = "/" /\ At(s, SkipWs(s, i + 1)) = "nian"

scraper_unit_multiplier(unit) ==
    IF unit \in {"k", "K", "qian"} THEN 1000
    ELSE IF unit = "wan" THEN 10000
    ELSE 1

\* float(token) for a token of [\d.]+: a numeral needs a digit and takes at
\* most one dot, which may come first or last; anything else is a ValueError
float_of_token(text) ==
    LET dots == Cardinality({ i \in 1..Len(text) : text[i] = "." })
        digits == Cardinality({ i \in 1..Len(text) : IsDigit(text[i]) })
    IN  IF dots > 1 \/ digits = 0 THEN [exc |-> "ValueError"]
        ELSE
        LET lead == IF text[1] = "." THEN <<"0">> \o text ELSE text
            whole == IF lead[Len(lead)] = "."
                     THEN SubSeq(lead, 1, Len(lead) - 1) ELSE lead
        IN  [exc |-> "", val |-> float(whole)]

\* x or y, for two unit letters
OrUnit(x, y) == IF x /= "" THEN x ELSE y

\* the low number takes the unit of the high one whatever its own
LowUnit_HighFirst(low_unit, high_unit) == OrUnit(high_unit, low_unit)

\* m.group("low_unit") or m.group("high_unit")
LowUnit(low_unit, high_unit) == OrUnit(low_unit, high_unit)

\* months = 12; if mm: months = int(mm.group(1))
MonthsOf(mm) ==
    IF ~mm.matched THEN 12 ELSE DigitsValue(mm.months, 1, Len(mm.months))

\* the value returned: (salary_min, salary_max, months)
Triple(salary_min, salary_max, months) ==
    [exc |-> "", salary_min |-> salary_min, salary_max |-> salary_max,
     months |-> months]

\* scraper.parser.parse_salary: raw is None or a text
scraper_parse_salary(raw_) ==
    IF raw_ = None \/ Val(raw_) = <<>> \/ Contains(Val(raw_), <<"mian", "yi">>)
    THEN Triple(None, None, 12)
    ELSE
    LET raw == Val(raw_)
        m == _SALARY_PAT(raw)
    IN  IF ~m.matched THEN Triple(None, None, 12)
        ELSE
        LET lowf == float_of_token(m.low)
            highf == float_of_token(m.high)
        IN  IF lowf.exc /= "" THEN Raised(lowf.exc)
            ELSE IF highf.exc /= "" THEN Raised(highf.exc)
            ELSE
            LET lowm == scraper_unit_multiplier(LowUnit(m.low_unit, m.high_unit))
                highm == scraper_unit_multiplier(OrUnit(m.high_unit, m.low_unit))
                months == MonthsOf(_MONTHS_PAT(raw))
                div == IF _YEARLY_PAT(raw) THEN 12 ELSE 1
                low == [lowf.val EXCEPT !.num = @ * lowm, !.den = @ * div]
                high == [highf.val EXCEPT !.num = @ * highm, !.den = @ * div]
            IN  IF low.inf \/ high.inf THEN Raised("OverflowError")
                ELSE Triple(Some(low.num \div low.den),
                            Some(high.num \div high.den), months)

-----------------------------------------------------------------------------
(* One text given to both salary parsers *)

ParserInputs ==
    Fragments({<<>>},
              {<<>>, <<"8">>, <<"1", ".", "5">>, <<"0", ".", "5">>,
               <<"2", "0">>, <<"1", ".", "2", ".", "3">>, <<".">>},
              {<<>>, <<"k">>, <<"qian">>, <<"wan">>},
              {<<>>, <<"-">>, <<"zhi">>, Pad \o <<"~">> \o Pad},
              {<<>>, <<"1", "5">>, <<"2", ".", "5">>, <<"3", "0">>, <<"5", ".">>},
              {<<>>, <<"K">>, <<"wan">>},
              {<<>>, <<"/", "yue">>, <<"/", "nian">>, <<"/">> \o Pad \o <<"nian">>},
              {<<>>, <<"mid", "1", "3", "xin">>, <<"9", "9", "xin">>,
               <<"0", "xin">>, <<"mian", "yi">>})

InitParsers ==
    /\ raw2 \in ParserInputs
    /\ out1 = [exc |-> "pending"]
    /\ out2 = [exc |-> "pending"]
    /\ CrawlerIdle
    /\ PureIdle
    /\ PoolIdle
    /\ ScraperIdle

\* the text goes to scraper.parser.parse_salary
CallScraperParseSalary ==
    /\ out2 = [exc |-> "pending"]
    /\ out2' = scraper_parse_salary(Some(Text(raw2)))
    /\ UNCHANGED <<raw2, out1, crawlerVars, pureVars, poolVars, scraperVars>>

\* the same text goes to zhaopin_salary.salary.parse_salary
CallCrawlerParseSalary ==
    /\ out2 /= [exc |-> "pending"]
    /\ out1 = [exc |-> "pending"]
    /\ out1' = parse_salary(Some(Text(raw2)))
    /\ UNCHANGED <<raw2, out2, crawlerVars, pureVars, poolVars, scraperVars>>

NextParsers ==
    \/ CallScraperParseSalary
    \/ CallCrawlerParseSalary

SpecParsers == InitParsers /\ [][NextParsers]_vars

-----------------------------------------------------------------------------
(* Claims about scraper.parser.parse_salary *)

\* the call of the second parser is over, by a return or by an exception
ScraperDone == out2 /= [exc |-> "pending"]

ScraperReturned == ScraperDone /\ out2.exc = ""

\* a numeral as Python's float reads it: digits with at most one dot
ValidDecimal(t) ==
    /\ \E i \in 1..Len(t) : t[i] \in Digits
    /\ Cardinality({ i \in 1..Len(t) : t[i] = "." }) <= 1

\* the text given to the two parsers
Given2 == Text(raw2)

NumberChars == Digits \cup {"."}

\* the last place before j that holds no blank, 0 if there is none
PrevNonBlank(t, j) ==
    LET before == { k \in 1..(j - 1) : t[k] /= " " }
    IN  IF before = {} THEN 0 ELSE CHOOSE k \in before : \A m \in before : m <= k

\* the first place after j that holds no blank, 0 if there is none
NextNonBlank(t, j) ==
    LET after == { k \in (j + 1)..Len(t) : t[k] /= " " }
    IN  IF after = {} THEN 0 ELSE CHOOSE k \in after : \A m \in after : k <= m

\* the place where the number before the separator at j ends: a unit letter
\* and blanks may stand between the two; 0 if there is no number
LowEndsAt(t, j) ==
    LET k == PrevNonBlank(t, j)
    IN  IF k = 0 THEN 0
        ELSE IF t[k] \in NumberChars THEN k
        ELSE IF t[k] \in {"k", "K", "qian", "wan"}
                /\ PrevNonBlank(t, k) > 0
                /\ t[PrevNonBlank(t, k)] \in NumberChars
             THEN PrevNonBlank(t, k)
        ELSE 0

\* the separators of the text that stand between two numbers
RangeSeparators(t) ==
    { j \in 1..Len(t) :
        /\ t[j] \in {"-", "~", "zhi"}
        /\ LowEndsAt(t, j) > 0
        /\ NextNonBlank(t, j) > 0
        /\ t[NextNonBlank(t, j)] \in NumberChars }

\* the text holds a range: two number tokens with a separator between them
HasTwoNumberRange == RangeSeparators(Given2) /= {}

FirstSeparator == CHOOSE j \in RangeSeparators(Given2) :
                      \A m \in RangeSeparators(Given2) : j <= m

\* the number token before the first separator of a range
LowToken ==
    LET e == LowEndsAt(Given2, FirstSeparator)
        b == CHOOSE k \in 1..e :
                 /\ \A m \in k..e : Given2[m] \in NumberChars
                 /\ (k = 1 \/ Given2[k - 1] \notin NumberChars)
    IN  SubSeq(Given2, b, e)

\* the number token after it
HighToken ==
    LET b == NextNonBlank(Given2, FirstSeparator)
        e == CHOOSE k \in b..Len(Given2) :
                 /\ \A m \in b..k : Given2[m] \in NumberChars
                 /\ (k = Len(Given2) \/ Given2[k + 1] \notin NumberChars)
    IN  SubSeq(Given2, b, e)

\* what the second parser cannot parse
ScraperCannotParse ==
    \/ Given2 = <<>>
    \/ Contains(Given2, <<"mian", "yi">>)
    \/ ~HasTwoNumberRange
    \/ ~ValidDecimal(LowToken)
    \/ ~ValidDecimal(HighToken)

\* C22: scraper.parser.parse_salary returns (None, None, 12) for every text
\* it cannot parse (empty, negotiable, without a range of two numbers, or
\* with a number token that is no decimal numeral) and two integer bounds
\* for every other text; it never returns only one bound
C22_TripleOrBothBounds ==
    ScraperDone =>
        /\ out2.exc = ""
        /\ ScraperCannotParse =>
               out2 = Triple(None, None, 12)
        /\ ~ScraperCannotParse =>
               out2.salary_min /= None /\ out2.salary_max /= None
        /\ (out2.salary_min = None) <=> (out2.salary_max = None)

\* C26: the months the second parser returns are from 1 to 24
C26_ScraperMonthsInRange ==
    ScraperReturned => 1 <= out2.months /\ out2.months <= 24

-----------------------------------------------------------------------------
(* Claims about the two salary parsers on one text *)

BothParsersDone == ScraperDone /\ out1 /= [exc |-> "pending"]

\* the texts compared: two plain numerals around a separator, a monthly or
\* absent period, and nothing after them that touches the numbers
PlainRangeGiven ==
    /\ raw2.low \in {<<"8">>, <<"1", ".", "5">>, <<"0", ".", "5">>, <<"2", "0">>}
    /\ raw2.high \in {<<"1", "5">>, <<"2", ".", "5">>, <<"3", "0">>}
    /\ raw2.sep /= <<>>
    /\ raw2.per \in {<<>>, <<"/", "yue">>}
    /\ raw2.post \in {<<>>, <<"mid", "1", "3", "xin">>}

\* exactly one of the two numbers carries a unit letter
OneSidedUnit == (raw2.ulow = <<>>) /= (raw2.uhigh = <<>>)

\* the plain numerals in tenths
Tenths(numeral) ==
    CASE numeral = <<"8">> -> 80
      [] numeral = <<"1", ".", "5">> -> 15
      [] numeral = <<"0", ".", "5">> -> 5
      [] numeral = <<"2", "0">> -> 200
      [] numeral = <<"1", "5">> -> 150
      [] numeral = <<"2", ".", "5">> -> 25
      [] numeral = <<"3", "0">> -> 300

UnitFactor(u) ==
    IF u = <<>> THEN 1 ELSE IF u = <<"wan">> THEN 10000 ELSE 1000

\* the unit letter of a number, the other number's letter if it has none
OwnUnitFirst(own, other) == IF own /= <<>> THEN own ELSE other

\* tenths cut down to a whole amount
Truncated(t) == t \div 10

\* tenths rounded to the nearest whole amount, a half to the even one
HalfEven(t) ==
    LET q == t \div 10
        r == t % 10
    IN  IF r < 5 THEN q
        ELSE IF r > 5 THEN q + 1
        ELSE IF q % 2 = 0 THEN q ELSE q + 1

Ascending(a, b) == IF a > b THEN <<b, a>> ELSE <<a, b>>

-----------------------------------------------------------------------------
(* zhaopin-scraper/scraper/proxy.py: ProxyPool.  A pool object is the       *)
(* record of its two fields; every method gives the object after the call  *)
(* and the value returned.                                                 *)

MaxPoolOps == 4

Proxies == {"a", "b"}

\* itertools.cycle(items).  The iterator reads the list it was made from
\* and then repeats what it has read; every statement that changes the
\* list of a pool (lines 47, 51, 63) is followed by a new iterator before
\* any next(), so the iterator is the list at its creation and a position.
cycle(items) == [saved |-> items, pos |-> 0]

\* next(c): the element returned and the iterator after it
next(c) ==
    [ret |-> c.saved[c.pos + 1],
     it |-> [c EXCEPT !.pos = (c.pos + 1) % Len(c.saved)]]

\* itertools.cycle(self._proxies) if self._proxies else None
cycle_or_None(items) == IF items /= <<>> THEN Some(cycle(items)) ELSE None

\* ProxyPool(proxies)
ProxyPool(proxies) == [_proxies |-> proxies, _cycle |-> cycle_or_None(proxies)]

\* {"http": proxy, "https": proxy}
ProxyDict(proxy) == [http |-> proxy, https |-> proxy]

\* the property available
available(self) == self._proxies /= <<>>

\* get(): the next proxy of the rotation, None without an iterator
get(self) ==
    IF self._cycle = None THEN [self |-> self, ret |-> None]
    ELSE LET n == next(Val(self._cycle))
         IN  [self |-> [self EXCEPT !._cycle = Some(n.it)],
              ret |-> Some(ProxyDict(n.ret))]

\* get_random(): random.choice picks the place k of the list
get_random(self, k) ==
    IF self._proxies = <<>> THEN [self |-> self, ret |-> None]
    ELSE [self |-> self, ret |-> Some(ProxyDict(self._proxies[k]))]

\* the places random.choice can pick
Choices(self) ==
    IF self._proxies = <<>> THEN {1} ELSE 1..Len(self._proxies)

\* add(proxy)
add(self, proxy) ==
    LET l == Append(self._proxies, proxy)
    IN  [self |-> [_proxies |-> l, _cycle |-> Some(cycle(l))], ret |-> None]

\* the list without the proxy
RECURSIVE Without(_, _)
Without(l, proxy) ==
    IF l = <<>> THEN <<>>
    ELSE IF Head(l) = proxy THEN Without(Tail(l), proxy)
    ELSE <<Head(l)>> \o Without(Tail(l), proxy)

\* remove(proxy) that leaves the iterator as it is
remove_StaleCycle(self, proxy) ==
    [self |-> [self EXCEPT !._proxies = Without(self._proxies, proxy)],
     ret |-> None]

\* remove(proxy)
remove(self, proxy) ==
    LET l == Without(self._proxies, proxy)
    IN  [self |-> [_proxies |-> l, _cycle |-> cycle_or_None(l)], ret |-> None]

\* for p in new_proxies: if p not in self._proxies: append
RECURSIVE AppendUnseen(_, _, _)
AppendUnseen(l, new_proxies, added) ==
    IF new_proxies = <<>> THEN [list |-> l, added |-> added]
    ELSE IF \E i \in 1..Len(l) : l[i] = Head(new_proxies)
         THEN AppendUnseen(l, Tail(new_proxies), added)
         ELSE AppendUnseen(Append(l, Head(new_proxies)), Tail(new_proxies),
                           added + 1)

\* refresh_from_api(api_url): resp is what the API answered, a failure of
\* the request (ok = FALSE) or a list of proxies
refresh_from_api(self, resp) ==
    IF ~resp.ok THEN [self |-> self, ret |-> 0]
    ELSE LET r == AppendUnseen(self._proxies, resp.json, 0)
         IN  [self |-> [_proxies |-> r.list, _cycle |-> cycle_or_None(r.list)],
              ret |-> r.added]

\* the lists a pool is made from
PoolLists ==
    {<<>>} \cup { <<x>> : x \in Proxies }
           \cup { <<x, y>> : x \in Proxies, y \in Proxies }

\* the answers of the proxy API
ApiResponses ==
    {[ok |-> FALSE, json |-> <<>>],
     [ok |-> TRUE, json |-> <<>>],
     [ok |-> TRUE, json |-> <<"a">>],
     [ok |-> TRUE, json |-> <<"b", "b", "a">>]}

self_pool == [_proxies |-> _proxies, _cycle |-> _cycle]

InitPool ==
    /\ \E proxies \in PoolLists :
           /\ _proxies = ProxyPool(proxies)._proxies
           /\ _cycle = ProxyPool(proxies)._cycle
    /\ pool_log = <<>>
    /\ CrawlerIdle
    /\ PureIdle
    /\ ParserIdle
    /\ ScraperIdle

\* one call on the pool: the fields change and the call is written down
PoolCall(op, arg, c) ==
    /\ Len(pool_log) < MaxPoolOps
    /\ _proxies' = c.self._proxies
    /\ _cycle' = c.self._cycle
    /\ pool_log' = Append(pool_log, [op |-> op, arg |-> arg, ret |-> c.ret,
                                     pool |-> c.self._proxies])
    /\ UNCHANGED <<crawlerVars, pureVars, parserVars, scraperVars>>

CallGet == PoolCall("get", <<>>, get(self_pool))

CallGetRandom ==
    \E k \in Choices(self_pool) :
        PoolCall("get_random", <<>>, get_random(self_pool, k))

CallAdd == \E proxy \in Proxies : PoolCall("add", <<proxy>>, add(self_pool, proxy))

CallRemove ==
    \E proxy \in Proxies : PoolCall("remove", <<proxy>>, remove(self_pool, proxy))

CallRefreshFromApi ==
    \E resp \in ApiResponses :
        PoolCall(IF resp.ok THEN "refresh_from_api" ELSE "refresh_failed",
                 resp.json, refresh_from_api(self_pool, resp))

NextPool ==
    \/ CallGet
    \/ CallGetRandom
    \/ CallAdd
    \/ CallRemove
    \/ CallRefreshFromApi

SpecPool == InitPool /\ [][NextPool]_vars

-----------------------------------------------------------------------------
(* Claims about ProxyPool *)

\* the calls that change the list of the pool
Mutations == {"add", "remove", "refresh_from_api"}

\* call i is a get(), the n-th one since the pool was made or last changed
NthGetSinceChange(i, n) ==
    /\ pool_log[i].op = "get"
    /\ \E start \in 1..i :
           /\ \A k \in start..i : pool_log[k].op \notin Mutations
           /\ start = 1 \/ pool_log[start - 1].op \in Mutations
           /\ n = Cardinality({ k \in start..i : pool_log[k].op = "get" })

\* proxy p came back into the pool by call k
ReAdds(k, p) ==
    \/ pool_log[k].op = "add" /\ pool_log[k].arg = <<p>>
    \/ /\ pool_log[k].op = "refresh_from_api"
       /\ \E m \in 1..Len(pool_log[k].arg) : pool_log[k].arg[m] = p

Hands(i) == pool_log[i].op \in {"get", "get_random"}

\* C23: get() returns the proxies in rotation (the n-th get() since the
\* pool was made or changed returns entry ((n-1) mod len)+1 of the list, so
\* len consecutive calls return every entry once, in the cyclic order of
\* the list) and None from an empty pool; after remove(p) no get() and no
\* get_random() returns p until p is added again, and once the last proxy
\* is removed both return None
C23_RotationAndRemoval ==
    /\ \A i \in 1..Len(pool_log) :
           pool_log[i].op = "get" =>
               LET l == pool_log[i].pool
               IN  IF l = <<>> THEN pool_log[i].ret = None
                   ELSE \A n \in 1..i :
                            NthGetSinceChange(i, n) =>
                                pool_log[i].ret
                                    = Some(ProxyDict(l[((n - 1) % Len(l)) + 1]))
    /\ \A i \in 1..Len(pool_log) : \A j \in (i + 1)..Len(pool_log) :
           (/\ pool_log[i].op = "remove"
            /\ Hands(j)
            /\ \A k \in (i + 1)..(j - 1) : ~ReAdds(k, pool_log[i].arg[1]))
           => /\ pool_log[j].ret /= Some(ProxyDict(pool_log[i].arg[1]))
              /\ pool_log[i].pool = <<>>
                     /\ (\A k \in (i + 1)..(j - 1) :
                             pool_log[k].op \notin Mutations)
                 => pool_log[j].ret = None

\* the pool made from a and b has been through a whole rotation, b has
\* been removed and the next get() starts the rotation of what is left
C23_Witness ==
    /\ Len(pool_log) = 4
    /\ pool_log[1].op = "get" /\ pool_log[1].ret = Some(ProxyDict("a"))
    /\ pool_log[2].op = "get" /\ pool_log[2].ret = Some(ProxyDict("b"))
    /\ pool_log[3].op = "remove" /\ pool_log[3].arg = <<"b">>
    /\ pool_log[3].pool = <<"a">>
    /\ pool_log[4].op = "get" /\ pool_log[4].ret = Some(ProxyDict("a"))

-----------------------------------------------------------------------------
(* zhaopin-scraper/scraper/zhaopin.py: ZhaopinScraper in API mode           *)
(* (use_selenium = False, the default).  The answers of the server are the  *)
(* inputs: one outcome for every attempt a call may make.                   *)

\* config.py
MAX_PAGES_PER_QUERY == 50

PAGE_SIZE == 60

MAX_RETRIES == 3

\* models.JobItem: the fields that come from the job name and the salary
JobItem(job_name, salary_raw_, salary_min, salary_max, salary_months) ==
    [job_name |-> job_name, salary_raw |-> salary_raw_,
     salary_min |-> salary_min, salary_max |-> salary_max,
     salary_months |-> salary_months]

\* the loop over results, parsed[i] being what parse_salary did with the
\* salary of results[i]: the first exception ends the loop and the call
ParseResult(results, parsed) ==
    LET raising == { i \in 1..Len(results) : parsed[i].exc /= "" }
    IN  IF raising /= {}
        THEN [exc |-> parsed[CHOOSE i \in raising :
                                 \A j \in raising : i <= j].exc,
              items |-> <<>>]
        ELSE [exc |-> "",
              items |-> [i \in 1..Len(results) |->
                            JobItem(results[i].jobName, results[i].salary,
                                    parsed[i].salary_min, parsed[i].salary_max,
                                    parsed[i].months)]]

\* for r in results: ... items.append(item)
ParseResults(results) ==
    ParseResult(results,
                [i \in 1..Len(results) |->
                    scraper_parse_salary(Some(results[i].salary))])

\* parser.parse_api_results(data): data["data"] is an object with the list
\* "results", or null, and then data.get("data", {}).get raises
parse_api_results(data) ==
    IF data.data = None THEN [exc |-> "AttributeError", items |-> <<>>]
    ELSE ParseResults(Val(data.data).results)

\* session.get raised a requests.RequestException
NoResponse == [kind |-> "RequestException"]

\* session.get returned a response
Response(status_code, json) ==
    [kind |-> "response", status_code |-> status_code, json |-> json]

\* the body {"data": {"results": [...]}}
Results(results) == [data |-> Some([results |-> results])]

\* the body {"data": null}
NullData == [data |-> None]

\* n results of a page, told apart by page and place
Jobs(page_, n, salary) ==
    [i \in 1..n |-> [jobName |-> <<page_, i>>, salary |-> salary]]

Salary8to15 == <<"8", "k", "-", "1", "5", "K">>

SalaryBadNumber == <<"1", ".", "2", ".", "3", "-", "1", "5", "K">>

\* return parse_api_results(data), or its exception
Parsed(self, sent, parsed) ==
    [self |-> self, exc |-> parsed.exc, ret |-> parsed.items, sent |-> sent]

RECURSIVE FetchAttempts(_, _, _, _, _, _, _)
\* for attempt in range(config.MAX_RETRIES): ...; return []
\* sent lists the requests made: the offset asked for and the proxy used
FetchAttempts(self, proxies, attempt, page_, outcomes, picks, sent) ==
    IF attempt = MAX_RETRIES
    THEN [self |-> self, exc |-> "", ret |-> <<>>, sent |-> sent]
    ELSE
    LET resp == outcomes[attempt + 1]
        sent1 == Append(sent, [start |-> (page_ - 1) * PAGE_SIZE,
                               proxies |-> proxies])
        counted == [self EXCEPT !._request_count = @ + 1]
    IN  IF resp.kind = "RequestException"
        THEN FetchAttempts(self, proxies, attempt + 1, page_, outcomes, picks, sent1)
        ELSE IF resp.status_code = 403
        THEN FetchAttempts(counted,
                           IF available(self.proxy_pool)
                           THEN get_random(self.proxy_pool, picks[attempt + 1]).ret
                           ELSE proxies,
                           attempt + 1, page_, outcomes, picks, sent1)
        ELSE IF resp.status_code >= 400
        THEN FetchAttempts(counted, proxies, attempt + 1, page_, outcomes, picks, sent1)
        ELSE Parsed(counted, sent1, parse_api_results(resp.json))

\* ZhaopinScraper._fetch_page_api: self is the scraper (its pool and its
\* request counter), outcomes what session.get does at each attempt, picks
\* what random.choice picks at each attempt
_fetch_page_api(self, page_, outcomes, picks) ==
    LET got == IF available(self.proxy_pool) THEN get(self.proxy_pool)
               ELSE [self |-> self.proxy_pool, ret |-> None]
    IN  FetchAttempts([self EXCEPT !.proxy_pool = got.self], got.ret, 0,
                      page_, outcomes, picks, <<>>)

\* the scraper object
self_scraper == [proxy_pool |-> self_pool, _request_count |-> _request_count]

\* what session.get can do at one attempt of a call for the given page
AttemptOutcomes(page_) ==
    {NoResponse,
     Response(403, NullData),
     Response(500, NullData),
     Response(200, Results(<<>>)),
     Response(200, Results(Jobs(page_, 2, Salary8to15))),
     Response(200, Results(Jobs(page_, 1, SalaryBadNumber))),
     Response(200, NullData)}

\* the call made, what it was given and what came of it
FetchEntry(page_, outcomes, f) ==
    [page |-> page_, outcomes |-> outcomes, sent |-> f.sent, ret |-> f.ret,
     exc |-> f.exc, count_before |-> _request_count,
     count_after |-> f.self._request_count]

InitFetch ==
    /\ \E proxies \in {<<>>, <<"a", "b">>} :
           /\ _proxies = ProxyPool(proxies)._proxies
           /\ _cycle = ProxyPool(proxies)._cycle
    /\ pool_log = <<>>
    /\ _request_count \in {0, 7}
    /\ page \in {1, 2}
    /\ all_items = <<>>
    /\ scrape_pc = "fetch"
    /\ page_log = <<>>
    /\ CrawlerIdle
    /\ PureIdle
    /\ ParserIdle

\* one call of _fetch_page_api
CallFetchPageApi ==
    /\ scrape_pc = "fetch"
    /\ \E outcomes \in [1..MAX_RETRIES -> AttemptOutcomes(page)] :
       \E picks \in [1..MAX_RETRIES -> Choices(self_pool)] :
       \E f \in {_fetch_page_api(self_scraper, page, outcomes, picks)} :
           /\ _request_count' = f.self._request_count
           /\ _proxies' = f.self.proxy_pool._proxies
           /\ _cycle' = f.self.proxy_pool._cycle
           /\ page_log' = <<FetchEntry(page, outcomes, f)>>
           /\ scrape_pc' = IF f.exc = "" THEN "returned" ELSE "raised"
    /\ UNCHANGED <<page, all_items, pool_log, crawlerVars, pureVars, parserVars>>

NextFetch == CallFetchPageApi

SpecFetch == InitFetch /\ [][NextFetch]_vars

-----------------------------------------------------------------------------
(* Claims about _fetch_page_api *)

FetchDone == scrape_pc \in {"returned", "raised"} /\ Len(page_log) = 1

\* attempt k of the call got a response that is neither a 403 nor an error
Succeeded(outcomes, k) ==
    /\ outcomes[k].kind = "response"
    /\ outcomes[k].status_code = 200

\* the attempts before which none has succeeded
Made(outcomes) ==
    { k \in 1..MAX_RETRIES : \A j \in 1..(k - 1) : ~Succeeded(outcomes, j) }

\* the items of a body, a null body having none: job name and salary text
ItemNames(json) ==
    IF json.data = None THEN <<>>
    ELSE [i \in 1..Len(Val(json.data).results) |->
              Val(json.data).results[i].jobName]

\* C29: a call of _fetch_page_api ends by a return after at most
\* MAX_RETRIES attempts: the attempts stop at the first one that succeeds,
\* whose items are returned; the empty list is returned when every attempt
\* ends in a 403, an error status or a request exception; the request
\* counter grows by the number of attempts that got a response
C29_FetchReturnsWithinRetries ==
    FetchDone =>
        LET e == page_log[1]
        IN  /\ e.exc = ""
            /\ Len(e.sent) <= MAX_RETRIES
            /\ Len(e.sent) = Cardinality(Made(e.outcomes))
            /\ \A k \in Made(e.outcomes) :
                   Succeeded(e.outcomes, k) =>
                       [i \in 1..Len(e.ret) |-> e.ret[i].job_name]
                           = ItemNames(e.outcomes[k].json)
            /\ (\A k \in 1..MAX_RETRIES : ~Succeeded(e.outcomes, k))
                   => e.ret = <<>>
            /\ e.count_after = e.count_before
                   + Cardinality({ k \in Made(e.outcomes) :
                                     e.outcomes[k].kind = "response" })

-----------------------------------------------------------------------------
(* One call of _scrape_combination: a step is one turn of its loop, the     *)
(* call of _fetch_page_api included.                                       *)

FullPage(page_) == Response(200, Results(Jobs(page_, PAGE_SIZE, Salary8to15)))

ShortPage(page_, n) == Response(200, Results(Jobs(page_, n, Salary8to15)))

\* what session.get does at the three attempts for a page
ScrapeOutcomes(page_) ==
    {<<FullPage(page_), NoResponse, NoResponse>>,
     <<ShortPage(page_, PAGE_SIZE - 1), NoResponse, NoResponse>>,
     <<NoResponse, Response(500, NullData), ShortPage(page_, 1)>>,
     <<Response(200, Results(<<>>)), NoResponse, NoResponse>>,
     <<Response(403, NullData), NoResponse, Response(403, NullData)>>,
     <<Response(200, Results(Jobs(page_, 1, SalaryBadNumber))), NoResponse, NoResponse>>,
     <<Response(403, NullData), Response(200, NullData), NoResponse>>}

InitScrape ==
    /\ \E proxies \in {<<>>, <<"a">>} :
           /\ _proxies = ProxyPool(proxies)._proxies
           /\ _cycle = ProxyPool(proxies)._cycle
    /\ pool_log = <<>>
    /\ _request_count = 0
    /\ page = 1
    /\ all_items = <<>>
    /\ scrape_pc = "loop"
    /\ page_log = <<>>
    /\ CrawlerIdle
    /\ PureIdle
    /\ ParserIdle

\* for page in range(1, config.MAX_PAGES_PER_QUERY + 1): one turn
ScrapePage ==
    /\ scrape_pc = "loop"
    /\ \E outcomes \in ScrapeOutcomes(page) :
       \E picks \in [1..MAX_RETRIES -> Choices(self_pool)] :
       \E f \in {_fetch_page_api(self_scraper, page, outcomes, picks)} :
       \E break \in {f.ret = <<>> \/ Len(f.ret) < PAGE_SIZE} :
           /\ _request_count' = f.self._request_count
           /\ _proxies' = f.self.proxy_pool._proxies
           /\ _cycle' = f.self.proxy_pool._cycle
           /\ page_log' = Append(page_log, FetchEntry(page, outcomes, f))
           /\ all_items' = IF f.exc = "" THEN all_items \o f.ret
                           ELSE all_items
           /\ scrape_pc' = IF f.exc /= "" THEN "raised"
                           ELSE IF break \/ page = MAX_PAGES_PER_QUERY
                           THEN "returned"
                           ELSE "loop"
           /\ page' = IF f.exc = "" /\ ~break /\ page < MAX_PAGES_PER_QUERY
                      THEN page + 1 ELSE page
    /\ UNCHANGED <<pool_log, crawlerVars, pureVars, parserVars>>

NextScrape == ScrapePage

SpecScrape == InitScrape /\ [][NextScrape]_vars

-----------------------------------------------------------------------------
(* Claims about _scrape_combination *)

RECURSIVE PagesJoined(_)
\* the items of the first n pages fetched, in page order
PagesJoined(n) ==
    IF n = 0 THEN <<>> ELSE PagesJoined(n - 1) \o page_log[n].ret

\* a page that ends the loop: no items, or fewer than a full page
LastPage(n) ==
    \/ page_log[n].ret = <<>>
    \/ Len(page_log[n].ret) < PAGE_SIZE

\* C30: _scrape_combination asks for the pages 1, 2, 3, ... in this order,
\* every page at its own offset, for no page after one without items or
\* with fewer than PAGE_SIZE items and for no more than MAX_PAGES_PER_QUERY
\* pages; it goes on after every other page, and it ends by returning the
\* items of the pages fetched, joined in page order
C30_PagesInOrderUntilShortPage ==
    /\ Len(page_log) <= MAX_PAGES_PER_QUERY
    /\ \A n \in 1..Len(page_log) :
           /\ page_log[n].page = n
           /\ \A k \in 1..Len(page_log[n].sent) :
                  page_log[n].sent[k].start = (n - 1) * PAGE_SIZE
           /\ n < Len(page_log) => ~LastPage(n)
    /\ scrape_pc /= "raised"
    /\ all_items = PagesJoined(Len(page_log))
    /\ scrape_pc = "loop" <=>
           /\ Len(page_log) < MAX_PAGES_PER_QUERY
           /\ Len(page_log) > 0 => ~LastPage(Len(page_log))

====
